---- MODULE Spec2Model ----
(***************************************************************************)
(* Ledger core of telegram-bot-pix: the Telegram bot (src/bot.js, with the *)
(* older revision src/unnamed/part_000) and the PagSeguro webhook          *)
(* (src/webhook.js, second revision, lines 336-683) acting on one          *)
(* PostgreSQL store of Users and Transactions through Sequelize.           *)
(*                                                                         *)
(* Every handler is an async function: it runs without interruption up to  *)
(* its next `await`, where any other handler may run.  A task of the model *)
(* is one running handler; its pc names the await it is suspended at, and  *)
(* one action is the code between two awaits.                              *)
(*                                                                         *)
(* Amounts are whole currency units (R$); the FLOAT columns' rounding is   *)
(* not modelled.                                                           *)
(***************************************************************************)
EXTENDS Integers, Sequences, FiniteSets, TLC

\* ------------------------------------------------------------------ bounds
MaxTasks == 2       \* handlers started in one run of Spec
MaxFaults == 1      \* storage / transport calls that reject in one run
HmacBytes == 2      \* bytes of the digest standing for HMAC-SHA256's 32

\* ------------------------------------------------------- program constants
PriceGG1 == 10      \* first /comprar registration, 'gg'
PriceCard1 == 5     \* first /comprar registration, 'card' | 'cartao'
PriceGG2 == 10      \* second /comprar registration, 'gg'
PriceCard2 == 10    \* second /comprar registration, 'card' | 'cartao'
MaxItems == 50      \* first /comprar registration: quantity > 50 is refused
CentsPerUnit == 100 \* PagSeguro sends the charge value in centavos

Ids == {1, 2}       \* telegram ids that may talk to the bot

\* A parsed number is {} (NaN) or {n}: parseInt / parseFloat may yield NaN.
NaN == {}
IsNaN(r) == r = {}
Num(r) == CHOOSE n \in r : TRUE

\* parseInt(text): the number its leading sign and digits spell, whatever
\* follows them; NaN when it starts with neither.  (webhook.js 594:
\* parseInt(referenceId.split('-')[0]); bot.js 313, 801.)
ParseInt(tok) ==
    CASE tok = "0" -> {0}
      [] tok = "1" -> {1}
      [] tok = "1x" -> {1}
      [] tok = "2" -> {2}
      [] tok = "3" -> {3}
      [] tok = "3abc" -> {3}
      [] tok = "9" -> {9}
      [] tok = "10" -> {10}
      [] tok = "10abc" -> {10}
      [] tok = "50" -> {50}
      [] tok = "51" -> {51}
      [] tok = "-5" -> {0 - 5}
      [] OTHER -> NaN

\* parseFloat(text) (bot.js 584, 617, 802): as parseInt on texts without a
\* fraction, which are the only ones used here
ParseFloat(tok) == ParseInt(tok)

VARIABLES
    userRows,   \* Users table: number of rows per telegramId (primary key)
    balance,    \* Users.balance per telegramId
    isAdmin,    \* Users.isAdmin per telegramId
    txs,        \* Transactions table in id (autoIncrement) order
    task,       \* the handlers started so far, each with its locals
    faults,     \* rejected storage / transport calls so far
    secret      \* PAGSEGURO_WEBHOOK_SECRET is configured

vars == <<userRows, balance, isAdmin, txs, task, faults, secret>>
Tasks == DOMAIN task

\* --------------------------------------------------------------- the store

ExistsMutantAlways(id) == TRUE
\* User.findByPk(id) !== null
Exists(id) == id \in Ids /\ userRows[id] > 0

\* sum of the amounts of the Transaction rows owned by id
RECURSIVE SumAmounts(_, _)
SumAmounts(s, id) ==
    IF s = <<>> THEN 0
    ELSE (IF Head(s).userId = id THEN Head(s).amount ELSE 0) + SumAmounts(Tail(s), id)

RowsOf(id) == {i \in 1..Len(txs) : txs[i].userId = id}

\* user.increment('balance', { by }): UPDATE "Users" SET balance = balance + by
\* WHERE telegramId = id, one SQL statement computed in the database, not
\* from the instance's own copy of the balance.
IncrementMutantEveryone(id, by, local) == [i \in Ids |-> balance[i] + by]
IncrementMutantLostUpdate(id, by, local) == [balance EXCEPT ![id] = local + by]
increment(id, by, local) == [balance EXCEPT ![id] = @ + by]

CreateMutantNoRow(id, amount, type, payId, description) == txs
CreateMutantOverwrites(id, amount, type, payId, description) ==
    IF txs = <<>> THEN <<[userId |-> id, amount |-> amount, type |-> type,
                          paymentId |-> payId, description |-> description]>>
    ELSE [txs EXCEPT ![Len(txs)] = [userId |-> id, amount |-> amount, type |-> type,
                                    paymentId |-> payId, description |-> description]]
\* Transaction.create({ userId, amount, type, description, paymentId }): the
\* paymentId column ("" for null), and of the description text the provider
\* id it quotes ("" when it quotes none)
create(id, amount, type, payId, description) ==
    Append(txs, [userId |-> id, amount |-> amount, type |-> type, paymentId |-> payId,
                 description |-> description])

\* ------------------------------------------------------------------- tasks

\* A webhook request: the raw body (an id for its bytes), whether it parses as
\* JSON, the signature header, and the notification it carries (for a V3
\* notificationCode: what the PagSeguro API answers for that code).
NoReq == [body |-> 0, json |-> FALSE, sig |-> <<>>, hasSig |-> FALSE, format |-> "",
          paid |-> FALSE, ref |-> <<>>, hasRef |-> FALSE, value |-> NaN, id |-> ""]

NoTask == [kind |-> "none", pc |-> "done", from |-> 0,
           args |-> <<>>, argTarget |-> NaN, argAmount |-> NaN, item |-> "", qty |-> 0,
           target |-> 0, amount |-> 0, type |-> "", payId |-> "",
           cost |-> 0, seen |-> 0, read |-> 0, ret |-> 0, updated |-> FALSE,
           gen |-> 0, bad |-> 0, refund |-> FALSE, conflict |-> FALSE,
           out |-> "", req |-> NoReq]

Free(t) == task[t].kind = "none" /\ \A s \in Tasks : s < t => task[s].kind # "none"
Running(t) == task[t].kind # "none" /\ task[t].pc # "done"
Finish(t, out) == [task[t] EXCEPT !.pc = "done", !.out = out]

\* bot.once('message', listener), bot.js 639-640: the listener a valid
\* /depositarcartao leaves behind is called with the next message the bot
\* receives, whoever sent it and whatever it is (a command is a message too),
\* and is removed by that call.  A message of another sender returns at 640;
\* one of the same sender with fewer than five fields is refused (642-645).
\* What every pending listener does when sender's message arrives:
Hear(sender, wellFormed) ==
    [t \in Tasks |->
        IF task[t].kind = "depositarcartao" /\ task[t].pc = "k_card"
        THEN IF sender # task[t].from THEN Finish(t, "ignored")
             ELSE IF wellFormed THEN [task[t] EXCEPT !.pc = "k_pay"]
             ELSE Finish(t, "invalid_card")
        ELSE task[t]]

\* ------------------------------------------------------- updateUserBalance
\* bot.js 164-180.  The caller has set target, amount, type, payId and
\* pc = "ub_find"; the four awaits are four steps.

\* The catch of the first /comprar registration, bot.js 418-430: the refund's
\* updateUserBalance runs up to its first await.
StartRefund(r) ==
    [r EXCEPT !.pc = "ub_find", !.refund = TRUE, !.amount = r.cost, !.type = "refund"]

\* where the caller goes on when updateUserBalance returns (found: the user
\* it returns is not null)
AfterUpdate(r, found) ==
    CASE r.kind = "setsaldo" ->
            \* 820-821 inside try: updatedUser.username of null throws
            IF found THEN [r EXCEPT !.pc = "done", !.out = "adjusted"]
            ELSE [r EXCEPT !.pc = "done", !.out = "adjust_error"]
      [] r.kind = "comprar1" /\ ~r.refund ->          \* 360-369
            [r EXCEPT !.pc = "c_gen", !.updated = found]
      [] r.kind = "comprar1" /\ r.refund ->           \* 423-425
            [r EXCEPT !.pc = "done", !.out = "refunded"]
      [] r.kind = "depositarcartao" ->                \* 662-664
            [r EXCEPT !.pc = "done", !.out = "card_paid"]
      [] r.kind = "comprar2" ->                       \* 783-788: 786 reads updatedUser.balance
            IF found THEN [r EXCEPT !.pc = "c_gen", !.updated = TRUE]
            ELSE [r EXCEPT !.pc = "done", !.out = "unhandled"]
      [] OTHER -> [r EXCEPT !.pc = "done", !.out = "updated"]

updateUserBalance_findByPk(t) ==
    /\ task[t].pc = "ub_find"
    /\ IF Exists(task[t].target)
       THEN task' = [task EXCEPT ![t] = [task[t] EXCEPT !.pc = "ub_inc",
                                                  !.read = balance[task[t].target],
                                                  !.ret = balance[task[t].target]]]
       ELSE task' = [task EXCEPT ![t] = AfterUpdate(task[t], FALSE)]
    /\ UNCHANGED <<userRows, balance, isAdmin, txs, faults, secret>>

updateUserBalance_increment(t) ==
    /\ task[t].pc = "ub_inc"
    /\ balance' = increment(task[t].target, task[t].amount, task[t].ret)
    /\ task' = [task EXCEPT ![t].pc = "ub_create"]
    /\ UNCHANGED <<userRows, isAdmin, txs, faults, secret>>

updateUserBalance_create(t) ==
    /\ task[t].pc = "ub_create"
    /\ txs' = create(task[t].target, task[t].amount, task[t].type, task[t].payId, "")
    /\ task' = [task EXCEPT ![t].pc = "ub_reload"]
    /\ UNCHANGED <<userRows, balance, isAdmin, faults, secret>>

UpdateUserBalanceReloadMutantInMemory(t) ==
    /\ task[t].pc = "ub_reload"
    /\ task' = [task EXCEPT ![t] =
          AfterUpdate([task[t] EXCEPT !.ret = task[t].read + task[t].amount], TRUE)]
    /\ UNCHANGED <<userRows, balance, isAdmin, txs, faults, secret>>

\* user.reload(): a SELECT of the row; user.balance is what is stored now
updateUserBalance_reload(t) ==
    /\ task[t].pc = "ub_reload"
    /\ task' = [task EXCEPT ![t] = AfterUpdate([task[t] EXCEPT !.ret = balance[task[t].target]], TRUE)]
    /\ UNCHANGED <<userRows, balance, isAdmin, txs, faults, secret>>

\* ---------------------------------------------------------------- /setsaldo
\* bot.js 799-826 (part_000 349-380 is the same code).

AdminDeniedMutantNoGate(found, flag) == FALSE
\* 806: if (!adminUser || !adminUser.isAdmin) return 'Acesso negado'
AdminDenied(found, flag) == ~found \/ ~flag

\* match[1] and match[2] are the texts of the two arguments (801-802)
setsaldo(t, from, targetText, amountText) ==
    /\ Free(t)
    /\ task' = [Hear(from, FALSE) EXCEPT ![t] = [NoTask EXCEPT !.kind = "setsaldo", !.pc = "s_admin",
                                       !.from = from, !.args = <<targetText, amountText>>,
                                       !.argTarget = ParseInt(targetText),
                                       !.argAmount = ParseFloat(amountText)]]
    /\ UNCHANGED <<userRows, balance, isAdmin, txs, faults, secret>>

setsaldo_findAdmin(t) ==
    /\ task[t].kind = "setsaldo" /\ task[t].pc = "s_admin"
    /\ LET r == task[t]
           found == Exists(r.from)
       IN  task' = [task EXCEPT ![t] =
             IF AdminDenied(found, found /\ isAdmin[r.from]) THEN Finish(t, "denied")
             ELSE IF IsNaN(r.argTarget) \/ IsNaN(r.argAmount) THEN Finish(t, "usage")
             ELSE [r EXCEPT !.pc = "s_target", !.target = Num(r.argTarget),
                            !.amount = Num(r.argAmount)]]
    /\ UNCHANGED <<userRows, balance, isAdmin, txs, faults, secret>>

setsaldo_findTarget(t) ==
    /\ task[t].kind = "setsaldo" /\ task[t].pc = "s_target"
    /\ task' = [task EXCEPT ![t] =
          IF ~Exists(task[t].target) THEN Finish(t, "not_found")
          ELSE [task[t] EXCEPT !.pc = "ub_find", !.type = "admin_adjustment"]]
    /\ UNCHANGED <<userRows, balance, isAdmin, txs, faults, secret>>

\* ----------------------------------------------------------------- /comprar
\* bot.js registers two handlers for /\/comprar (.+) (.+)/ (309-431 and
\* 742-796).  node-telegram-bot-api calls every matching onText callback
\* unless the bot is built with onlyFirstMatch (bot.js 26 builds it with
\* { polling: true } only), so one /comprar message starts both, the first
\* registration first.

\* the switch on itemType: 332-348 and 761-775; 0 stands for the default case
pricePerItem(kind, item) ==
    IF kind = "comprar1"
    THEN (IF item = "gg" THEN PriceGG1
          ELSE IF item \in {"card", "cartao"} THEN PriceCard1 ELSE 0)
    ELSE (IF item = "gg" THEN PriceGG2
          ELSE IF item \in {"card", "cartao"} THEN PriceCard2 ELSE 0)

\* 315-321 and 748-750, run when the message arrives
QuantityCheck(kind, q) ==
    IF IsNaN(q) \/ Num(q) <= 0 THEN "invalid_qty"
    ELSE IF kind = "comprar1" /\ Num(q) > MaxItems THEN "max_qty"
    ELSE "ok"

\* item is match[1].toLowerCase() and text is match[2] (312-313, 745-746)
StartComprar(kind, from, item, text) ==
    LET r == [NoTask EXCEPT !.kind = kind, !.from = from, !.item = item,
                            !.args = <<item, text>>]
        q == ParseInt(text)
        c == QuantityCheck(kind, q)
    IN  IF c # "ok" THEN [r EXCEPT !.out = c]
        ELSE [r EXCEPT !.pc = "c_find", !.qty = Num(q)]

comprar(t, from, item, text) ==
    /\ Free(t) /\ t + 1 \in Tasks
    /\ task' = [Hear(from, FALSE) EXCEPT ![t] = StartComprar("comprar1", from, item, text),
                            ![t + 1] = StartComprar("comprar2", from, item, text)]
    /\ UNCHANGED <<userRows, balance, isAdmin, txs, faults, secret>>

InsufficientMutantNoCheck(bal, totalCost) == FALSE
\* 352 and 779: if (user.balance < totalCost) return 'Saldo insuficiente'
Insufficient(bal, totalCost) == bal < totalCost

ComprarFindByPkMutantGeneratesFirst(t) ==
    /\ task[t].kind \in {"comprar1", "comprar2"} /\ task[t].pc = "c_find"
    /\ task' = [task EXCEPT ![t] =
          [task[t] EXCEPT !.pc = "c_gen", !.seen = balance[task[t].from],
                          !.cost = task[t].qty * pricePerItem(task[t].kind, task[t].item)]]
    /\ UNCHANGED <<userRows, balance, isAdmin, txs, faults, secret>>

\* 323-361 and 752-783: from the user's row to the call of updateUserBalance
comprar_findByPk(t) ==
    /\ task[t].kind \in {"comprar1", "comprar2"} /\ task[t].pc = "c_find"
    /\ LET r == task[t]
           price == pricePerItem(r.kind, r.item)
           totalCost == r.qty * price
       IN  task' = [task EXCEPT ![t] =
             IF ~Exists(r.from) THEN Finish(t, "not_registered")
             ELSE IF price = 0 THEN Finish(t, "invalid_type")
             ELSE IF Insufficient(balance[r.from], totalCost)
             THEN [r EXCEPT !.pc = "done", !.out = "insufficient",
                            !.seen = balance[r.from], !.cost = totalCost]
             ELSE [r EXCEPT !.pc = "ub_find", !.seen = balance[r.from],
                            !.cost = totalCost, !.target = r.from,
                            !.amount = 0 - totalCost, !.type = "purchase"]]
    /\ UNCHANGED <<userRows, balance, isAdmin, txs, faults, secret>>

ComprarGenerateMutantOneItem(t, ok) ==
    /\ task[t].kind \in {"comprar1", "comprar2"} /\ task[t].pc = "c_gen"
    /\ ok \/ faults < MaxFaults
    /\ faults' = IF ok THEN faults ELSE faults + 1
    /\ LET r == [task[t] EXCEPT !.gen = IF ok THEN @ + 1 ELSE @,
                                !.bad = IF ok THEN @ ELSE @ + 1]
       IN  task' = [task EXCEPT ![t] =
             IF r.kind = "comprar2" THEN [r EXCEPT !.pc = "done", !.out = "success"]
             ELSE [r EXCEPT !.pc = "c_send"]]
    /\ UNCHANGED <<userRows, balance, isAdmin, txs, secret>>

\* One pass of the generation loop, 369-384 and 788-792; ok = FALSE is
\* generateFunction() returning null from its catch (bot.js 247-250,
\* 274-277).  After the last pass the first registration awaits
\* bot.sendMessage (388-413, which reads updatedUser.balance); the second
\* sends without awaiting (795).
comprar_generate(t, ok) ==
    /\ task[t].kind \in {"comprar1", "comprar2"} /\ task[t].pc = "c_gen"
    /\ ok \/ faults < MaxFaults
    /\ faults' = IF ok THEN faults ELSE faults + 1
    /\ LET r == [task[t] EXCEPT !.gen = IF ok THEN @ + 1 ELSE @,
                                !.bad = IF ok THEN @ ELSE @ + 1]
       IN  task' = [task EXCEPT ![t] =
             IF r.gen + r.bad < r.qty THEN r
             ELSE IF r.kind = "comprar2" THEN [r EXCEPT !.pc = "done", !.out = "success"]
             ELSE IF r.updated THEN [r EXCEPT !.pc = "c_send"]
             ELSE StartRefund(r)]
    /\ UNCHANGED <<userRows, balance, isAdmin, txs, secret>>

\* 412: the awaited bot.sendMessage resolves
comprar_sendMessage(t) ==
    /\ task[t].kind = "comprar1" /\ task[t].pc = "c_send"
    /\ task' = [task EXCEPT ![t] = Finish(t, "success")]
    /\ UNCHANGED <<userRows, balance, isAdmin, txs, faults, secret>>

\* ------------------------------------------------------------------ /report
\* bot.js 828-912 ("report") and part_000 383-456 ("report_daily"): the admin
\* gate, the users by balance, then part_000 lists the day's Transaction rows
\* and bot.js awaits the sending of the report.

\* users.reduce((sum, user) => sum + parseFloat(user.balance), 0), bot.js 858
RECURSIVE TotalBalance(_)
TotalBalance(ids) ==
    IF ids = {} THEN 0
    ELSE LET id == CHOOSE x \in ids : TRUE IN balance[id] + TotalBalance(ids \ {id})

report(t, kind, from) ==
    /\ Free(t)
    /\ task' = [Hear(from, FALSE) EXCEPT ![t] = [NoTask EXCEPT !.kind = kind, !.pc = "p_admin",
                                       !.from = from]]
    /\ UNCHANGED <<userRows, balance, isAdmin, txs, faults, secret>>

\* bot.js 832-835, part_000 388-391
report_findAdmin(t) ==
    /\ task[t].kind \in {"report", "report_daily"} /\ task[t].pc = "p_admin"
    /\ LET found == Exists(task[t].from)
       IN  task' = [task EXCEPT ![t] =
             IF AdminDenied(found, found /\ isAdmin[task[t].from]) THEN Finish(t, "denied")
             ELSE [task[t] EXCEPT !.pc = "p_users"]]
    /\ UNCHANGED <<userRows, balance, isAdmin, txs, faults, secret>>

\* bot.js 838-867, part_000 394-412: User.findAll; of what the report shows,
\* the number of users (ret) and the total balance (seen)
report_findAll(t) ==
    /\ task[t].kind \in {"report", "report_daily"} /\ task[t].pc = "p_users"
    /\ LET users == {id \in Ids : Exists(id)}
       IN  task' = [task EXCEPT ![t] =
             [task[t] EXCEPT !.pc = IF task[t].kind = "report" THEN "p_send" ELSE "p_txs",
                             !.ret = Cardinality(users),
                             !.seen = TotalBalance(users)]]
    /\ UNCHANGED <<userRows, balance, isAdmin, txs, faults, secret>>

\* part_000 419-452: Transaction.findAll of the day (gen: how many rows),
\* then the report is sent without awaiting
report_transactions(t) ==
    /\ task[t].kind = "report_daily" /\ task[t].pc = "p_txs"
    /\ task' = [task EXCEPT ![t] = [task[t] EXCEPT !.pc = "done", !.out = "reported",
                                                   !.gen = Len(txs)]]
    /\ UNCHANGED <<userRows, balance, isAdmin, txs, faults, secret>>

\* bot.js 870-905: the awaited bot.sendMessage resolves
report_sendMessage(t) ==
    /\ task[t].kind = "report" /\ task[t].pc = "p_send"
    /\ task' = [task EXCEPT ![t] = Finish(t, "reported")]
    /\ UNCHANGED <<userRows, balance, isAdmin, txs, faults, secret>>

\* ------------------------------------------------------------------- /saldo
\* bot.js 550-578: the balance, then the user's Transaction rows.

saldo(t, from) ==
    /\ Free(t)
    /\ task' = [Hear(from, FALSE) EXCEPT ![t] = [NoTask EXCEPT !.kind = "saldo", !.pc = "q_find",
                                       !.from = from]]
    /\ UNCHANGED <<userRows, balance, isAdmin, txs, faults, secret>>

saldo_findByPk(t) ==
    /\ task[t].kind = "saldo" /\ task[t].pc = "q_find"
    /\ task' = [task EXCEPT ![t] =
          IF Exists(task[t].from)
          THEN [task[t] EXCEPT !.pc = "q_rows", !.seen = balance[task[t].from]]
          ELSE Finish(t, "not_registered")]
    /\ UNCHANGED <<userRows, balance, isAdmin, txs, faults, secret>>

saldo_findAll(t) ==
    /\ task[t].kind = "saldo" /\ task[t].pc = "q_rows"
    /\ task' = [task EXCEPT ![t] = [task[t] EXCEPT !.pc = "done", !.out = "shown",
                                                   !.ret = SumAmounts(txs, task[t].from)]]
    /\ UNCHANGED <<userRows, balance, isAdmin, txs, faults, secret>>

\* ----------------------------------------------------------------- webhook
\* webhook.js, second revision: POST /webhook/pagseguro 487-526,
\* processPagSeguroNotification 531-558, processPagSeguroV4Webhook 563-581,
\* processPaymentFromReference 586-624.

HexDigits == {"a", "b"}

\* crypto.createHmac('sha256', secret).update(payload).digest('hex'): a hex
\* string of fixed length that differs for different bodies.
Hmac(body) == [i \in 1..(2 * HmacBytes) |-> IF (body + i) % 2 = 0 THEN "a" ELSE "b"]

\* signature.replace(/^sha256=/, '')
StripPrefix(sig) == IF sig # <<>> /\ Head(sig) = "sha256=" THEN Tail(sig) ELSE sig

\* Buffer.from(s, 'hex'): the bytes of the leading hex-digit pairs; decoding
\* stops at the first pair that is not two hex digits.
RECURSIVE HexDecode(_)
HexDecode(s) ==
    IF Len(s) >= 2 /\ s[1] \in HexDigits /\ s[2] \in HexDigits
    THEN <<<<s[1], s[2]>>>> \o HexDecode(SubSeq(s, 3, Len(s)))
    ELSE <<>>

\* a header value is truthy in JavaScript when it is present and not ''
Truthy(hasSig, sig) == hasSig /\ sig # <<>>

\* validatePagSeguroSignature 451-470; crypto.timingSafeEqual throws a
\* RangeError when its two buffers differ in byte length.
validatePagSeguroSignature(body, sig, hasSig, hasSecret) ==
    IF ~Truthy(hasSig, sig) \/ ~hasSecret THEN "invalid"   \* 452-454
    ELSE LET given == HexDecode(StripPrefix(sig))
             expected == HexDecode(Hmac(body))
         IN  IF Len(given) # Len(expected) THEN "throws"
             ELSE IF given = expected THEN "valid" ELSE "invalid"

\* `${telegramId}` in a template literal: the decimal digits of the id
IdToken(id) == CASE id = 1 -> "1" [] id = 2 -> "2" [] OTHER -> "9"

\* 589-596 up to the first await, for an amount already in R$
processPaymentFromReference(r, amount) ==
    IF ~r.req.hasRef \/ Len(r.req.ref) < 2
    THEN [r EXCEPT !.pc = "done", !.out = "400_reference"]
    ELSE LET telegramId == ParseInt(r.req.ref[1])
         IN  IF ~IsNaN(telegramId) /\ ~IsNaN(amount) /\ Num(amount) > 0
             THEN [r EXCEPT !.pc = "w_find", !.target = Num(telegramId),
                            !.amount = Num(amount), !.type = "deposit",
                            !.payId = r.req.id]
             ELSE [r EXCEPT !.pc = "done", !.out = "400_data"]

\* parseFloat(charge.amount.value) / 100
FromCents(value) == IF IsNaN(value) THEN NaN ELSE {Num(value) \div CentsPerUnit}

ProcessPagSeguroV4WebhookMutantIgnoresStatus(r) ==
    processPaymentFromReference(r, FromCents(r.req.value))

\* 565-575
processPagSeguroV4Webhook(r) ==
    IF r.req.paid THEN processPaymentFromReference(r, FromCents(r.req.value))
    ELSE [r EXCEPT !.pc = "done", !.out = "200_not_paid"]

SignatureGateMutantAlwaysChecks(req) ==
    IF Truthy(req.hasSig, req.sig)
    THEN LET v == validatePagSeguroSignature(req.body, req.sig, req.hasSig, TRUE)
         IN  IF v = "throws" THEN "400_json"
             ELSE IF v = "invalid" THEN "403_invalid"
             ELSE "pass"
    ELSE "403_missing"

\* 494-508: "pass", or the response that ends the request
SignatureGate(req) ==
    IF ~secret THEN "pass"
    ELSE IF Truthy(req.hasSig, req.sig)
    THEN LET v == validatePagSeguroSignature(req.body, req.sig, req.hasSig, secret)
         IN  IF v = "throws" THEN "400_json"       \* caught at 522-525
             ELSE IF v = "invalid" THEN "403_invalid"
             ELSE "pass"
    ELSE "403_missing"

\* 487-526 up to the first await; payer is the user whose deposit intent the
\* request notifies (0: none), which the handler does not see
Receive(req, payer) ==
    LET r == [NoTask EXCEPT !.kind = "webhook", !.req = req, !.from = payer]
        gate == SignatureGate(req)
    IN  IF ~req.json THEN [r EXCEPT !.out = "400_json"]
        ELSE IF gate # "pass" THEN [r EXCEPT !.out = gate]
        ELSE IF req.format = "v3" THEN [r EXCEPT !.pc = "w_fetch"]
        ELSE IF req.format = "v4" THEN processPagSeguroV4Webhook(r)
        ELSE [r EXCEPT !.out = "200_not_processed"]

\* The first revision of the endpoint, webhook.js 157-175: the whole handler.
\* It validates the x-hub-signature header when both the header and the
\* secret are there (401 for a wrong digest, 500 from its catch when
\* timingSafeEqual throws) and then returns: it neither processes the
\* notification nor sends a response ("" is no response).
Receive_first(req) ==
    LET r == [NoTask EXCEPT !.kind = "webhook_first", !.req = req]
    IN  IF Truthy(req.hasSig, req.sig) /\ secret
        THEN LET v == validatePagSeguroSignature(req.body, req.sig, req.hasSig, secret)
             IN  IF v = "throws" THEN [r EXCEPT !.out = "500"]
                 ELSE IF v = "invalid" THEN [r EXCEPT !.out = "401_invalid"]
                 ELSE r
        ELSE r

webhook_first(t, req) ==
    /\ Free(t)
    /\ task' = [task EXCEPT ![t] = Receive_first(req)]
    /\ UNCHANGED <<userRows, balance, isAdmin, txs, faults, secret>>

webhook(t, req) ==
    /\ Free(t)
    /\ task' = [task EXCEPT ![t] = Receive(req, 0)]
    /\ UNCHANGED <<userRows, balance, isAdmin, txs, faults, secret>>

\* 534-552: the API's answer arrives; status 3 or 4 is paid, the amount
\* (grossAmount) is in R$
processPagSeguroNotification(t) ==
    /\ task[t].kind = "webhook" /\ task[t].pc = "w_fetch"
    /\ task' = [task EXCEPT ![t] =
          IF task[t].req.paid
          THEN processPaymentFromReference(task[t], task[t].req.value)
          ELSE [task[t] EXCEPT !.pc = "done", !.out = "200_not_paid"]]
    /\ UNCHANGED <<userRows, balance, isAdmin, txs, faults, secret>>

\* 597-598, 612-615
processPaymentFromReference_findByPk(t) ==
    /\ task[t].kind = "webhook" /\ task[t].pc = "w_find"
    /\ task' = [task EXCEPT ![t] =
          IF Exists(task[t].target)
          THEN [task[t] EXCEPT !.pc = "w_inc", !.seen = balance[task[t].target]]
          ELSE [task[t] EXCEPT !.pc = "done", !.out = "404"]]
    /\ UNCHANGED <<userRows, balance, isAdmin, txs, faults, secret>>

\* 600
processPaymentFromReference_increment(t) ==
    /\ task[t].kind = "webhook" /\ task[t].pc = "w_inc"
    /\ balance' = increment(task[t].target, task[t].amount, task[t].seen)
    /\ task' = [task EXCEPT ![t].pc = "w_create"]
    /\ UNCHANGED <<userRows, isAdmin, txs, faults, secret>>

\* 603-611: the row gets no paymentId; transactionId goes into the
\* description text, `Deposito PagSeguro confirmado (ID: ${transactionId})`
processPaymentFromReference_create(t) ==
    /\ task[t].kind = "webhook" /\ task[t].pc = "w_create"
    /\ txs' = create(task[t].target, task[t].amount, task[t].type, "", task[t].payId)
    /\ task' = [task EXCEPT ![t] = [task[t] EXCEPT !.pc = "done", !.out = "200_processed"]]
    /\ UNCHANGED <<userRows, balance, isAdmin, faults, secret>>

\* ------------------------------------------------------- deposit intents
\* bot.js /depositar 581-611, callback_query 679-695, handlePagSeguroPIX
\* 698-737, createPagSeguroPIX 187-235; part_000 /depositar 235-288.

MinPix == 1         \* bot.js 590: amount < 1
MinCard == 5        \* bot.js 623: amount < 5

\* the reference ids the bot gives its orders, as their '-'-separated tokens
\* (what referenceId.split('-') yields); now is the Date.now() token
createPagSeguroPIX_referenceId(id, now) == <<"telegram", IdToken(id), now>>       \* bot.js 189
CreatePagSeguroCardReferenceIdMutantIdFirst(id, now) == <<IdToken(id), "card", now>>
createPagSeguroCard_referenceId(id, now) == <<"telegram", "card", IdToken(id), now>>  \* bot.js 460
depositar_referenceId(id, now) == <<IdToken(id), now>>                            \* part_000 251

\* the V4 notification PagSeguro sends to notification_urls when the order
\* with this reference is paid: Math.round(amount * 100) centavos, signed
Notification(ref, amount, orderId) ==
    [body |-> 1, json |-> TRUE, sig |-> Hmac(1), hasSig |-> TRUE, format |-> "v4",
     paid |-> TRUE, ref |-> ref, hasRef |-> TRUE,
     value |-> {amount * CentsPerUnit}, id |-> orderId]

\* 585-591 (part_000 240-242 has no minimum), run when the message arrives
AmountCheck(kind, a) ==
    IF IsNaN(a) \/ Num(a) <= 0 THEN "invalid_amount"
    ELSE IF kind = "depositar" /\ Num(a) < MinPix THEN "below_minimum"
    ELSE IF kind = "depositarcartao" /\ Num(a) < MinCard THEN "below_minimum"   \* 619-625
    ELSE "ok"

\* text is match[1] (584)
StartDepositar(kind, from, text) ==
    LET a == ParseFloat(text)
        r == [NoTask EXCEPT !.kind = kind, !.from = from, !.args = <<text>>,
                            !.argAmount = a]
    IN  IF AmountCheck(kind, a) # "ok" THEN [r EXCEPT !.out = AmountCheck(kind, a)]
        ELSE [r EXCEPT !.pc = "d_find", !.amount = Num(a)]

\* kind is "depositar" (bot.js) or "depositar0" (part_000)
depositar(t, kind, from, text) ==
    /\ Free(t)
    /\ task' = [Hear(from, FALSE) EXCEPT ![t] = StartDepositar(kind, from, text)]
    /\ UNCHANGED <<userRows, balance, isAdmin, txs, faults, secret>>

\* 593-610: the inline button carries the amount; part_000 244-257 goes on
\* to the Wegate call
depositar_findByPk(t) ==
    /\ task[t].kind \in {"depositar", "depositar0"} /\ task[t].pc = "d_find"
    /\ task' = [task EXCEPT ![t] =
          IF ~Exists(task[t].from) THEN Finish(t, "not_registered")
          ELSE IF task[t].kind = "depositar" THEN Finish(t, "offered")
          ELSE [task[t] EXCEPT !.pc = "d_pix"]]
    /\ UNCHANGED <<userRows, balance, isAdmin, txs, faults, secret>>

\* part_000 248-286: axios.post to Wegate resolves (ok) or rejects; either
\* way a message is sent
depositar_generate(t, ok) ==
    /\ task[t].kind = "depositar0" /\ task[t].pc = "d_pix"
    /\ ok \/ faults < MaxFaults
    /\ faults' = IF ok THEN faults ELSE faults + 1
    /\ task' = [task EXCEPT ![t] =
          IF ok THEN [task[t] EXCEPT !.pc = "done", !.out = "pix_sent",
                        !.req = Notification(depositar_referenceId(task[t].from, "1700000000000"),
                                             task[t].amount, "WEGATE_1")]
          ELSE Finish(t, "pix_error")]
    /\ UNCHANGED <<userRows, balance, isAdmin, txs, secret>>

\* 679-687: the user presses the button of an offer; the callback data is
\* pix_pagseguro_<amount>, and handlePagSeguroPIX runs to its first await
callback_query(t, s) ==
    /\ Free(t)
    /\ task[s].kind = "depositar" /\ task[s].out = "offered"
    /\ task' = [task EXCEPT ![t] = [NoTask EXCEPT !.kind = "callback", !.pc = "h_find",
                                       !.from = task[s].from, !.amount = task[s].amount]]
    /\ UNCHANGED <<userRows, balance, isAdmin, txs, faults, secret>>

\* 700-706
handlePagSeguroPIX_findByPk(t) ==
    /\ task[t].kind = "callback" /\ task[t].pc = "h_find"
    /\ task' = [task EXCEPT ![t] =
          IF ~Exists(task[t].from) THEN Finish(t, "not_found")
          ELSE [task[t] EXCEPT !.pc = "h_pix"]]
    /\ UNCHANGED <<userRows, balance, isAdmin, txs, faults, secret>>

CreatePagSeguroPIXMutantCredits(t, ok) ==
    /\ task[t].kind = "callback" /\ task[t].pc = "h_pix"
    /\ balance' = [balance EXCEPT ![task[t].from] = @ + task[t].amount]
    /\ task' = [task EXCEPT ![t] = Finish(t, IF ok THEN "pix_sent" ELSE "pix_error")]
    /\ UNCHANGED <<userRows, isAdmin, txs, faults, secret>>

\* createPagSeguroPIX 187-235 called at 708: axios.post resolves with the
\* order (ok), or rejects and the function returns { success: false }
createPagSeguroPIX(t, ok) ==
    /\ task[t].kind = "callback" /\ task[t].pc = "h_pix"
    /\ ok \/ faults < MaxFaults
    /\ faults' = IF ok THEN faults ELSE faults + 1
    /\ task' = [task EXCEPT ![t] =
          IF ok THEN [task[t] EXCEPT !.pc = "h_qr", !.payId = "ORDE_1",
                        !.req = Notification(createPagSeguroPIX_referenceId(task[t].from, "1700000000000"),
                                             task[t].amount, "CHAR_1")]
          ELSE Finish(t, "pix_error")]                          \* 731-733
    /\ UNCHANGED <<userRows, balance, isAdmin, txs, secret>>

\* 710-730: qrcode.toBuffer resolves and the photo is sent, or rejects and
\* the code is sent as text
handlePagSeguroPIX_qrcode(t, ok) ==
    /\ task[t].kind = "callback" /\ task[t].pc = "h_qr"
    /\ ok \/ faults < MaxFaults
    /\ faults' = IF ok THEN faults ELSE faults + 1
    /\ task' = [task EXCEPT ![t] = Finish(t, IF ok THEN "pix_sent" ELSE "pix_sent_text")]
    /\ UNCHANGED <<userRows, balance, isAdmin, txs, secret>>

\* the order of intent s is paid and PagSeguro posts its notification
\* the gateway holds a paid order made by handler s: a PIX code that was
\* sent (and paid), or a card charge it answered PAID
Notifiable(s) ==
    \/ task[s].kind \in {"callback", "depositar0"} /\ task[s].out \in {"pix_sent", "pix_sent_text"}
    \/ task[s].kind = "depositarcartao" /\ task[s].req # NoReq

pagseguroNotifies(t, s) ==
    /\ Free(t)
    /\ Notifiable(s)
    /\ \A u \in Tasks : ~(task[u].kind = "webhook" /\ task[u].req = task[s].req)
    /\ task' = [task EXCEPT ![t] = Receive(task[s].req, task[s].from)]
    /\ UNCHANGED <<userRows, balance, isAdmin, txs, faults, secret>>

\* ---------------------------------------------------------- /depositarcartao
\* bot.js 614-676, createPagSeguroCard 458-521.

depositarcartao(t, from, text) ==
    /\ Free(t)
    /\ task' = [Hear(from, FALSE) EXCEPT ![t] =
          LET r == StartDepositar("depositarcartao", from, text)
          IN  IF r.pc = "d_find" THEN [r EXCEPT !.pc = "k_find"] ELSE r]
    /\ UNCHANGED <<userRows, balance, isAdmin, txs, faults, secret>>

\* 627-639: the user's row, then bot.once('message') waits for the card data
depositarcartao_findByPk(t) ==
    /\ task[t].kind = "depositarcartao" /\ task[t].pc = "k_find"
    /\ task' = [task EXCEPT ![t] =
          IF ~Exists(task[t].from) THEN Finish(t, "not_registered")
          ELSE [task[t] EXCEPT !.pc = "k_card"]]
    /\ UNCHANGED <<userRows, balance, isAdmin, txs, faults, secret>>

\* 639-658: a message that is no command arrives while a listener is pending
depositarcartao_message(sender, wellFormed) ==
    /\ \E t \in Tasks : task[t].kind = "depositarcartao" /\ task[t].pc = "k_card"
    /\ task' = Hear(sender, wellFormed)
    /\ UNCHANGED <<userRows, balance, isAdmin, txs, faults, secret>>

\* 658-671: createPagSeguroCard answers with the charge's status, or with
\* { success: false } when the gateway call rejects; a PAID charge is
\* credited at once through updateUserBalance
createPagSeguroCard(t, status) ==
    /\ task[t].kind = "depositarcartao" /\ task[t].pc = "k_pay"
    /\ status # "REJECTED" \/ faults < MaxFaults
    /\ faults' = IF status = "REJECTED" THEN faults + 1 ELSE faults
    /\ task' = [task EXCEPT ![t] =
          IF status = "REJECTED" THEN Finish(t, "card_error")
          ELSE IF status = "PAID"
          THEN [task[t] EXCEPT !.pc = "ub_find", !.target = task[t].from,
                               !.type = "deposit", !.payId = "ORDE_1",
                               !.req = Notification(createPagSeguroCard_referenceId(task[t].from, "1700000000000"),
                                                    task[t].amount, "CHAR_2")]
          ELSE Finish(t, "card_pending")]
    /\ UNCHANGED <<userRows, balance, isAdmin, txs, secret>>

\* --------------------------------------------------- /start and /registrar
\* findOrCreateUser, bot.js 148-159 (part_000 157-168), is one call of
\* Sequelize's User.findOrCreate({ where: { telegramId }, defaults }): a
\* SELECT; when it finds no row an INSERT; and when the INSERT is refused
\* with a unique-constraint error on the key of `where`, a second SELECT whose
\* row is returned with created = false (no row: the error is rethrown).

UniqueViolationMutantNone(id) == FALSE
\* telegramId is the primary key of Users (bot.js 44-49): an INSERT of a
\* telegramId that has a row is refused
UniqueViolation(id) == userRows[id] > 0

\* bot.js 526-547, part_000 197-204
start(t, from) ==
    /\ Free(t)
    /\ task' = [Hear(from, FALSE) EXCEPT ![t] = [NoTask EXCEPT !.kind = "start", !.pc = "foc_find",
                                       !.from = from]]
    /\ UNCHANGED <<userRows, balance, isAdmin, txs, faults, secret>>

\* part_000 207-212
registrar(t, from) ==
    /\ Free(t)
    /\ task' = [Hear(from, FALSE) EXCEPT ![t] = [NoTask EXCEPT !.kind = "registrar", !.pc = "r_find",
                                       !.from = from]]
    /\ UNCHANGED <<userRows, balance, isAdmin, txs, faults, secret>>

\* part_000 213-218
registrar_findByPk(t) ==
    /\ task[t].kind = "registrar" /\ task[t].pc = "r_find"
    /\ task' = [task EXCEPT ![t] =
          IF Exists(task[t].from) THEN Finish(t, "already_registered")
          ELSE [task[t] EXCEPT !.pc = "foc_find"]]
    /\ UNCHANGED <<userRows, balance, isAdmin, txs, faults, secret>>

\* findOrCreateUser has returned the row: /start greets with user.balance
\* (bot.js 532-546), /registrar confirms (part_000 216-217)
Registered(r) ==
    [r EXCEPT !.pc = "done", !.seen = balance[r.from],
              !.out = IF r.kind = "start" THEN "welcome" ELSE "registered"]

FindOrCreateUserFindMutantResets(t) ==
    /\ task[t].kind \in {"start", "registrar"} /\ task[t].pc = "foc_find"
    /\ task' = [task EXCEPT ![t] =
          IF Exists(task[t].from) THEN Registered(task[t])
          ELSE [task[t] EXCEPT !.pc = "foc_create"]]
    /\ balance' = [balance EXCEPT ![task[t].from] = 0]
    /\ UNCHANGED <<userRows, isAdmin, txs, faults, secret>>

\* the SELECT of findOrCreate
findOrCreateUser_find(t) ==
    /\ task[t].kind \in {"start", "registrar"} /\ task[t].pc = "foc_find"
    /\ task' = [task EXCEPT ![t] =
          IF Exists(task[t].from) THEN Registered(task[t])
          ELSE [task[t] EXCEPT !.pc = "foc_create"]]
    /\ UNCHANGED <<userRows, balance, isAdmin, txs, faults, secret>>

DefaultIsAdminMutantTrue == TRUE
\* isAdmin: { type: DataTypes.BOOLEAN, defaultValue: false } (bot.js 58-61)
DefaultIsAdmin == FALSE

\* the INSERT: the new row has balance 0.0 and isAdmin false (bot.js 54-61)
findOrCreateUser_create(t) ==
    /\ task[t].kind \in {"start", "registrar"} /\ task[t].pc = "foc_create"
    /\ LET id == task[t].from
       IN  IF UniqueViolation(id)
           THEN /\ task' = [task EXCEPT ![t] = [task[t] EXCEPT !.pc = "foc_refind",
                                                              !.conflict = TRUE]]
                /\ UNCHANGED <<userRows, balance, isAdmin>>
           ELSE /\ userRows' = [userRows EXCEPT ![id] = @ + 1]
                /\ balance' = [balance EXCEPT ![id] = 0]
                /\ isAdmin' = [isAdmin EXCEPT ![id] = DefaultIsAdmin]
                /\ task' = [task EXCEPT ![t] =
                               Registered([task[t] EXCEPT !.updated = TRUE])]
    /\ UNCHANGED <<txs, faults, secret>>

findOrCreateUser_refind(t) ==
    /\ task[t].kind \in {"start", "registrar"} /\ task[t].pc = "foc_refind"
    /\ task' = [task EXCEPT ![t] =
          IF Exists(task[t].from) THEN Registered(task[t])
          ELSE Finish(t, "unhandled")]
    /\ UNCHANGED <<userRows, balance, isAdmin, txs, faults, secret>>

\* ------------------------------------------------------------------ faults
\* A storage call (findByPk, increment, create, reload, findAll) or the
\* fetch of the PagSeguro API rejects: the exception goes to the handler's
\* catch, if it has one around that await.

UpdatePcs == {"ub_find", "ub_inc", "ub_create", "ub_reload"}
FailingPcs == UpdatePcs \cup {"s_admin", "s_target", "q_find", "q_rows", "c_find", "c_send",
                              "w_fetch", "w_find", "w_inc", "w_create",
                              "r_find", "foc_find", "foc_create", "foc_refind",
                              "d_find", "h_find", "k_find",
                              "p_admin", "p_users", "p_txs", "p_send"}

CaughtMutantSilent(r) ==
    CASE r.kind = "comprar1" /\ ~r.refund /\ r.pc \in UpdatePcs \cup {"c_send"} -> StartRefund(r)
      [] r.kind = "comprar1" /\ r.refund /\ r.pc \in UpdatePcs ->
            [r EXCEPT !.pc = "done", !.out = "refunded"]
      [] OTHER -> [r EXCEPT !.pc = "done", !.out = "unhandled"]

Caught(r) ==
    CASE r.kind = "setsaldo" /\ r.pc \in UpdatePcs ->          \* bot.js 822-825
            [r EXCEPT !.pc = "done", !.out = "adjust_error"]
      [] r.kind = "comprar1" /\ ~r.refund /\ r.pc \in UpdatePcs \cup {"c_send"} ->
            StartRefund(r)                                     \* bot.js 418-425
      [] r.kind = "comprar1" /\ r.refund /\ r.pc \in UpdatePcs ->
            [r EXCEPT !.pc = "done", !.out = "critical"]       \* bot.js 426-429
      [] r.kind = "webhook" ->                                 \* webhook.js 554-557, 620-623
            [r EXCEPT !.pc = "done", !.out = "500"]
      [] r.kind = "depositarcartao" /\ r.pc \in UpdatePcs ->   \* bot.js 672-675
            [r EXCEPT !.pc = "done", !.out = "card_error"]
      [] r.kind = "callback" ->                                \* bot.js 734-737
            [r EXCEPT !.pc = "done", !.out = "internal_error"]
      [] r.kind \in {"report", "report_daily"} /\ r.pc # "p_admin" ->
            [r EXCEPT !.pc = "done", !.out = "report_error"]   \* bot.js 908-911
      [] OTHER -> [r EXCEPT !.pc = "done", !.out = "unhandled"]

\* the awaited call of handler t rejects, as long as fewer than max have
StorageFailsUpTo(t, max) ==
    /\ Running(t) /\ task[t].pc \in FailingPcs
    /\ faults < max
    /\ faults' = faults + 1
    /\ task' = [task EXCEPT ![t] = Caught(task[t])]
    /\ UNCHANGED <<userRows, balance, isAdmin, txs, secret>>

StorageFails(t) == StorageFailsUpTo(t, MaxFaults)

\* ------------------------------------------------------------------ inputs

\* a paid V4 notification for user id with a valid signature
PaidV4(id, payId, cents) ==
    [body |-> 1, json |-> TRUE, sig |-> Hmac(1), hasSig |-> TRUE, format |-> "v4",
     paid |-> TRUE, ref |-> <<id, "1700000000000">>, hasRef |-> TRUE,
     value |-> {cents}, id |-> payId]

\* -------------------------------------------------------------------- specs

\* Spec: the three paths that change a balance (admin adjustment, webhook
\* credit) and /saldo reading beside them, on a store where user 1 is an
\* admin and user 2 is not.
LedgerRequests == {PaidV4("1", "CHAR_1", 500)}
LedgerAdjust == {"10", "-5"}

Init ==
    /\ userRows = [i \in Ids |-> 1]
    /\ isAdmin = [i \in Ids |-> i = 1]
    /\ balance = [i \in Ids |-> 0]
    /\ txs = <<>>
    /\ task = [t \in 1..MaxTasks |-> NoTask]
    /\ faults = 0
    /\ secret = TRUE

Next ==
    \/ \E t \in Tasks, from \in Ids, am \in LedgerAdjust : setsaldo(t, from, "1", am)
    \/ \E t \in Tasks : setsaldo_findAdmin(t)
    \/ \E t \in Tasks : setsaldo_findTarget(t)
    \/ \E t \in Tasks, req \in LedgerRequests : webhook(t, req)
    \/ \E t \in Tasks : processPaymentFromReference_findByPk(t)
    \/ \E t \in Tasks : processPaymentFromReference_increment(t)
    \/ \E t \in Tasks : processPaymentFromReference_create(t)
    \/ \E t \in Tasks : saldo(t, 1)
    \/ \E t \in Tasks : saldo_findByPk(t)
    \/ \E t \in Tasks : saldo_findAll(t)
    \/ \E t \in Tasks : updateUserBalance_findByPk(t)
    \/ \E t \in Tasks : updateUserBalance_increment(t)
    \/ \E t \in Tasks : updateUserBalance_create(t)
    \/ \E t \in Tasks : updateUserBalance_reload(t)
    \/ \E t \in Tasks : StorageFails(t)

Spec == Init /\ [][Next]_vars

\* SpecPurchase: one user, with or without a confirmed deposit of 50, who
\* sends /comprar while deposits arrive.
PurchaseTasks == 2
Deposit == 50
PurchaseItems == {"gg", "card", "x"}
PurchaseQty == {"abc", "0", "3", "51"}
PurchaseRequests == {PaidV4("1", "CHAR_1", Deposit * CentsPerUnit)}

InitPurchase ==
    /\ userRows = [i \in Ids |-> IF i = 1 THEN 1 ELSE 0]
    /\ isAdmin = [i \in Ids |-> FALSE]
    /\ \E funded \in BOOLEAN :
          /\ balance = [i \in Ids |-> IF i = 1 /\ funded THEN Deposit ELSE 0]
          /\ txs = IF funded
                   THEN <<[userId |-> 1, amount |-> Deposit, type |-> "deposit",
                           paymentId |-> "", description |-> "CHAR_0"]>>
                   ELSE <<>>
    /\ task = [t \in 1..PurchaseTasks |-> NoTask]
    /\ faults = 0
    /\ secret = TRUE

NextPurchase ==
    \/ \E t \in Tasks, from \in Ids, item \in PurchaseItems, q \in PurchaseQty :
          comprar(t, from, item, q)
    \/ \E t \in Tasks : comprar_findByPk(t)
    \/ \E t \in Tasks, ok \in BOOLEAN : comprar_generate(t, ok)
    \/ \E t \in Tasks : comprar_sendMessage(t)
    \/ \E t \in Tasks, req \in PurchaseRequests : webhook(t, req)
    \/ \E t \in Tasks : processPaymentFromReference_findByPk(t)
    \/ \E t \in Tasks : processPaymentFromReference_increment(t)
    \/ \E t \in Tasks : processPaymentFromReference_create(t)
    \/ \E t \in Tasks : updateUserBalance_findByPk(t)
    \/ \E t \in Tasks : updateUserBalance_increment(t)
    \/ \E t \in Tasks : updateUserBalance_create(t)
    \/ \E t \in Tasks : updateUserBalance_reload(t)
    \/ \E t \in Tasks : StorageFails(t)

SpecPurchase == InitPurchase /\ [][NextPurchase]_vars

\* SpecAdmin: /setsaldo from an admin (user 1) and from a user who is
\* registered without the admin flag, or not registered at all (user 2),
\* with every shape of arguments.
AdminTargets == {"abc", "1", "9"}
AdminAmounts == {"abc", "10", "-5"}

InitAdmin ==
    /\ \E registered \in BOOLEAN :
          userRows = [i \in Ids |-> IF i = 1 \/ registered THEN 1 ELSE 0]
    /\ isAdmin = [i \in Ids |-> i = 1]
    /\ balance = [i \in Ids |-> 0]
    /\ txs = <<>>
    /\ task = [t \in 1..MaxTasks |-> NoTask]
    /\ faults = 0
    /\ secret = TRUE

NextAdmin ==
    \/ \E t \in Tasks, from \in Ids, tg \in AdminTargets, am \in AdminAmounts :
          setsaldo(t, from, tg, am)
    \/ \E t \in Tasks : setsaldo_findAdmin(t)
    \/ \E t \in Tasks : setsaldo_findTarget(t)
    \/ \E t \in Tasks : updateUserBalance_findByPk(t)
    \/ \E t \in Tasks : updateUserBalance_increment(t)
    \/ \E t \in Tasks : updateUserBalance_create(t)
    \/ \E t \in Tasks : updateUserBalance_reload(t)
    \/ \E t \in Tasks : StorageFails(t)

SpecAdmin == InitAdmin /\ [][NextAdmin]_vars

\* SpecWebhook: requests to POST /webhook/pagseguro with every shape of
\* signature header and of notification, with and without a configured
\* secret; user 1 is registered, user 2 is not.
SignatureHeaders ==
    {[hasSig |-> FALSE, sig |-> <<>>],                          \* no header
     [hasSig |-> TRUE, sig |-> <<>>],                           \* empty header
     [hasSig |-> TRUE, sig |-> Hmac(1)],                        \* the digest
     [hasSig |-> TRUE, sig |-> <<"sha256=">> \o Hmac(1)],       \* prefixed
     [hasSig |-> TRUE, sig |-> Hmac(2)],                        \* another digest
     [hasSig |-> TRUE, sig |-> SubSeq(Hmac(1), 1, 2)],          \* too short
     [hasSig |-> TRUE, sig |-> Hmac(1) \o <<"z", "z">>]}        \* digest + junk

Paid == PaidV4("1", "CHAR_1", 500)

WebhookRequests ==
    {[Paid EXCEPT !.hasSig = h.hasSig, !.sig = h.sig] : h \in SignatureHeaders}
    \cup {[Paid EXCEPT !.json = FALSE],
          [Paid EXCEPT !.format = "v3", !.value = {5}, !.id = "CODE_1"],
          [Paid EXCEPT !.format = "v3", !.paid = FALSE],
          [Paid EXCEPT !.format = "other"],
          [Paid EXCEPT !.paid = FALSE],
          [Paid EXCEPT !.hasRef = FALSE],
          [Paid EXCEPT !.ref = <<"x", "1700000000000">>],
          [Paid EXCEPT !.ref = <<"2", "1700000000000">>],
          [Paid EXCEPT !.value = NaN]}

InitWebhook ==
    /\ userRows = [i \in Ids |-> IF i = 1 THEN 1 ELSE 0]
    /\ isAdmin = [i \in Ids |-> FALSE]
    /\ balance = [i \in Ids |-> 0]
    /\ txs = <<>>
    /\ task = [t \in 1..MaxTasks |-> NoTask]
    /\ faults = 0
    /\ secret \in BOOLEAN

NextWebhook ==
    \/ \E t \in Tasks, req \in WebhookRequests : webhook(t, req)
    \/ \E t \in Tasks : processPagSeguroNotification(t)
    \/ \E t \in Tasks : processPaymentFromReference_findByPk(t)
    \/ \E t \in Tasks : processPaymentFromReference_increment(t)
    \/ \E t \in Tasks : processPaymentFromReference_create(t)
    \/ \E t \in Tasks : StorageFails(t)

SpecWebhook == InitWebhook /\ [][NextWebhook]_vars

\* SpecUsers: /start and /registrar from users who are not registered yet.
UsersTasks == 3

InitUsers ==
    /\ userRows = [i \in Ids |-> 0]
    /\ isAdmin = [i \in Ids |-> FALSE]
    /\ balance = [i \in Ids |-> 0]
    /\ txs = <<>>
    /\ task = [t \in 1..UsersTasks |-> NoTask]
    /\ faults = 0
    /\ secret = TRUE

NextUsers ==
    \/ \E t \in Tasks, from \in Ids : start(t, from)
    \/ \E t \in Tasks, from \in Ids : registrar(t, from)
    \/ \E t \in Tasks : registrar_findByPk(t)
    \/ \E t \in Tasks : findOrCreateUser_find(t)
    \/ \E t \in Tasks : findOrCreateUser_create(t)
    \/ \E t \in Tasks : findOrCreateUser_refind(t)
    \/ \E t \in Tasks : StorageFails(t)

SpecUsers == InitUsers /\ [][NextUsers]_vars

\* SpecDeposit: users ask for a PIX deposit (/depositar and its button in
\* bot.js, /depositar of part_000), the gateway creates the order or fails,
\* and PagSeguro notifies the webhook when the order is paid.
DepositTasks == 3
DepositAmounts == {"abc", "0", "10"}

InitDeposit ==
    /\ userRows = [i \in Ids |-> IF i = 1 THEN 1 ELSE 0]
    /\ isAdmin = [i \in Ids |-> FALSE]
    /\ balance = [i \in Ids |-> 0]
    /\ txs = <<>>
    /\ task = [t \in 1..DepositTasks |-> NoTask]
    /\ faults = 0
    /\ secret = TRUE

NextDeposit ==
    \/ \E t \in Tasks, k \in {"depositar", "depositar0"}, from \in Ids, a \in DepositAmounts :
          depositar(t, k, from, a)
    \/ \E t \in Tasks : depositar_findByPk(t)
    \/ \E t \in Tasks, ok \in BOOLEAN : depositar_generate(t, ok)
    \/ \E t, s \in Tasks : callback_query(t, s)
    \/ \E t \in Tasks : handlePagSeguroPIX_findByPk(t)
    \/ \E t \in Tasks, ok \in BOOLEAN : createPagSeguroPIX(t, ok)
    \/ \E t \in Tasks, ok \in BOOLEAN : handlePagSeguroPIX_qrcode(t, ok)
    \/ \E t, s \in Tasks : pagseguroNotifies(t, s)
    \/ \E t \in Tasks : processPaymentFromReference_findByPk(t)
    \/ \E t \in Tasks : processPaymentFromReference_increment(t)
    \/ \E t \in Tasks : processPaymentFromReference_create(t)
    \/ \E t \in Tasks : StorageFails(t)

SpecDeposit == InitDeposit /\ [][NextDeposit]_vars

\* SpecReference: correctly signed paid notifications with every shape of
\* reference id, while user 2 (not registered at first) may send /start.
References ==
    {<<"1", "1700000000000">>,      \* 1-1700000000000
     <<"2", "1700000000000">>,      \* 2-1700000000000
     <<"9", "1700000000000">>,      \* 9-1700000000000
     <<"1x", "1700000000000">>,     \* 1x-1700000000000
     <<"x", "1700000000000">>,      \* x-1700000000000
     <<"", "1">>,                   \* -1
     <<"1">>}                       \* 1
ReferenceRequests ==
    {[Paid EXCEPT !.ref = r] : r \in References}
    \cup {[Paid EXCEPT !.hasRef = FALSE, !.ref = <<>>],
          [Paid EXCEPT !.format = "v3", !.value = {5}, !.id = "CODE_1", !.ref = <<"x", "1">>],
          [Paid EXCEPT !.format = "v3", !.value = {5}, !.id = "CODE_1", !.ref = <<"2", "1">>]}

NextReference ==
    \/ \E t \in Tasks, req \in ReferenceRequests : webhook(t, req)
    \/ \E t \in Tasks : processPagSeguroNotification(t)
    \/ \E t \in Tasks : processPaymentFromReference_findByPk(t)
    \/ \E t \in Tasks : processPaymentFromReference_increment(t)
    \/ \E t \in Tasks : processPaymentFromReference_create(t)
    \/ \E t \in Tasks : start(t, 2)
    \/ \E t \in Tasks : findOrCreateUser_find(t)
    \/ \E t \in Tasks : findOrCreateUser_create(t)
    \/ \E t \in Tasks : findOrCreateUser_refind(t)
    \/ \E t \in Tasks : StorageFails(t)

SpecReference == InitWebhook /\ [][NextReference]_vars

\* SpecCommands: the commands of bot.js with well-formed and ill-formed
\* argument texts, sent by user 1 (registered, admin, funded by one deposit
\* of 10); user 2 is registered too, with nothing.
CommandTasks == 2
Funds == 10
ComprarArgs == {<<"gg", "1">>, <<"gg", "1x">>, <<"gg", "abc">>, <<"gg", "0">>, <<"x", "1">>}
DepositarArgs == {"abc", "0", "10"}
DepositarCartaoArgs == {"abc", "0", "3", "10"}
SetsaldoArgs == {<<"2", "10">>, <<"abc", "10">>, <<"2", "abc">>, <<"1x", "10">>, <<"2", "10abc">>}

InitCommands ==
    /\ userRows = [i \in Ids |-> 1]
    /\ isAdmin = [i \in Ids |-> i = 1]
    /\ balance = [i \in Ids |-> IF i = 1 THEN Funds ELSE 0]
    /\ txs = <<[userId |-> 1, amount |-> Funds, type |-> "deposit",
                paymentId |-> "", description |-> "CHAR_0"]>>
    /\ task = [t \in 1..CommandTasks |-> NoTask]
    /\ faults = 0
    /\ secret = TRUE

NextCommands ==
    \/ \E t \in Tasks, a \in ComprarArgs : comprar(t, 1, a[1], a[2])
    \/ \E t \in Tasks : comprar_findByPk(t)
    \/ \E t \in Tasks, ok \in BOOLEAN : comprar_generate(t, ok)
    \/ \E t \in Tasks : comprar_sendMessage(t)
    \/ \E t \in Tasks, a \in DepositarArgs : depositar(t, "depositar", 1, a)
    \/ \E t \in Tasks : depositar_findByPk(t)
    \/ \E t \in Tasks, a \in DepositarCartaoArgs : depositarcartao(t, 1, a)
    \/ \E t \in Tasks : depositarcartao_findByPk(t)
    \/ \E ok \in BOOLEAN : depositarcartao_message(1, ok)
    \/ \E t \in Tasks, st \in {"PAID", "IN_ANALYSIS", "REJECTED"} : createPagSeguroCard(t, st)
    \/ \E t \in Tasks, a \in SetsaldoArgs : setsaldo(t, 1, a[1], a[2])
    \/ \E t \in Tasks : setsaldo_findAdmin(t)
    \/ \E t \in Tasks : setsaldo_findTarget(t)
    \/ \E t \in Tasks : updateUserBalance_findByPk(t)
    \/ \E t \in Tasks : updateUserBalance_increment(t)
    \/ \E t \in Tasks : updateUserBalance_create(t)
    \/ \E t \in Tasks : updateUserBalance_reload(t)
    \/ \E t \in Tasks : StorageFails(t)

SpecCommands == InitCommands /\ [][NextCommands]_vars

\* SpecUnregistered: user 2 has no row until they send /start; they send
\* /comprar and /depositar, and the admin (user 1) names them, or an id
\* nobody has, in /setsaldo.  /comprar gg 3 costs more than user 2 can hold
\* here, so the generation loop is never reached.
UnregisteredTasks == 3

InitUnregistered ==
    /\ userRows = [i \in Ids |-> IF i = 1 THEN 1 ELSE 0]
    /\ isAdmin = [i \in Ids |-> i = 1]
    /\ balance = [i \in Ids |-> 0]
    /\ txs = <<>>
    /\ task = [t \in 1..UnregisteredTasks |-> NoTask]
    /\ faults = 0
    /\ secret = TRUE

NextUnregistered ==
    \/ \E t \in Tasks : comprar(t, 2, "gg", "3")
    \/ \E t \in Tasks : comprar_findByPk(t)
    \/ \E t \in Tasks, k \in {"depositar", "depositar0"} : depositar(t, k, 2, "10")
    \/ \E t \in Tasks : depositar_findByPk(t)
    \/ \E t \in Tasks, ok \in BOOLEAN : depositar_generate(t, ok)
    \/ \E t \in Tasks, tg \in {"2", "9"} : setsaldo(t, 1, tg, "10")
    \/ \E t \in Tasks : setsaldo_findAdmin(t)
    \/ \E t \in Tasks : setsaldo_findTarget(t)
    \/ \E t \in Tasks : start(t, 2)
    \/ \E t \in Tasks : findOrCreateUser_find(t)
    \/ \E t \in Tasks : findOrCreateUser_create(t)
    \/ \E t \in Tasks : findOrCreateUser_refind(t)
    \/ \E t \in Tasks : updateUserBalance_findByPk(t)
    \/ \E t \in Tasks : updateUserBalance_increment(t)
    \/ \E t \in Tasks : updateUserBalance_create(t)
    \/ \E t \in Tasks : updateUserBalance_reload(t)
    \/ \E t \in Tasks : StorageFails(t)

SpecUnregistered == InitUnregistered /\ [][NextUnregistered]_vars

\* SpecBulk: a user who can afford it asks for the largest purchase allowed
\* and for one item more.
BulkTasks == 2
BulkFunds == 510
BulkQuantities == {"50", "51"}

InitBulk ==
    /\ userRows = [i \in Ids |-> IF i = 1 THEN 1 ELSE 0]
    /\ isAdmin = [i \in Ids |-> FALSE]
    /\ balance = [i \in Ids |-> IF i = 1 THEN BulkFunds ELSE 0]
    /\ txs = <<[userId |-> 1, amount |-> BulkFunds, type |-> "deposit",
                paymentId |-> "", description |-> "CHAR_0"]>>
    /\ task = [t \in 1..BulkTasks |-> NoTask]
    /\ faults = 0
    /\ secret = TRUE

NextBulk ==
    \/ \E t \in Tasks, q \in BulkQuantities : comprar(t, 1, "gg", q)
    \/ \E t \in Tasks : comprar_findByPk(t)
    \/ \E t \in Tasks, ok \in BOOLEAN : comprar_generate(t, ok)
    \/ \E t \in Tasks : comprar_sendMessage(t)
    \/ \E t \in Tasks : updateUserBalance_findByPk(t)
    \/ \E t \in Tasks : updateUserBalance_increment(t)
    \/ \E t \in Tasks : updateUserBalance_create(t)
    \/ \E t \in Tasks : updateUserBalance_reload(t)
    \/ \E t \in Tasks : StorageFails(t)

SpecBulk == InitBulk /\ [][NextBulk]_vars

\* SpecAdjust: the admin (user 1) adjusts their own balance and user 2's by
\* positive, negative and zero deltas.
AdjustTasks == 2
AdjustTargets == {"1", "2"}
AdjustDeltas == {"10", "-5", "0"}

InitAdjust ==
    /\ userRows = [i \in Ids |-> 1]
    /\ isAdmin = [i \in Ids |-> i = 1]
    /\ balance = [i \in Ids |-> 0]
    /\ txs = <<>>
    /\ task = [t \in 1..AdjustTasks |-> NoTask]
    /\ faults = 0
    /\ secret = TRUE

NextAdjust ==
    \/ \E t \in Tasks, tg \in AdjustTargets, am \in AdjustDeltas : setsaldo(t, 1, tg, am)
    \/ \E t \in Tasks : setsaldo_findAdmin(t)
    \/ \E t \in Tasks : setsaldo_findTarget(t)
    \/ \E t \in Tasks : updateUserBalance_findByPk(t)
    \/ \E t \in Tasks : updateUserBalance_increment(t)
    \/ \E t \in Tasks : updateUserBalance_create(t)
    \/ \E t \in Tasks : updateUserBalance_reload(t)
    \/ \E t \in Tasks : StorageFails(t)

SpecAdjust == InitAdjust /\ [][NextAdjust]_vars

\* SpecNoAdmin: every command, callback and webhook on a store in which
\* nobody is an admin; user 1 is registered and funded, user 2 registers.
\* (The step of /setsaldo after its admin gate is not among the actions: no
\* handler gets past the gate here, which C20 checks.)
NoAdminTasks == 2

InitNoAdmin ==
    /\ userRows = [i \in Ids |-> IF i = 1 THEN 1 ELSE 0]
    /\ isAdmin = [i \in Ids |-> FALSE]
    /\ balance = [i \in Ids |-> IF i = 1 THEN Funds ELSE 0]
    /\ txs = <<[userId |-> 1, amount |-> Funds, type |-> "deposit",
                paymentId |-> "", description |-> "CHAR_0"]>>
    /\ task = [t \in 1..NoAdminTasks |-> NoTask]
    /\ faults = 0
    /\ secret = TRUE

NextNoAdmin ==
    \/ \E t \in Tasks : start(t, 2)
    \/ \E t \in Tasks : registrar(t, 2)
    \/ \E t \in Tasks : registrar_findByPk(t)
    \/ \E t \in Tasks : findOrCreateUser_find(t)
    \/ \E t \in Tasks : findOrCreateUser_create(t)
    \/ \E t \in Tasks : findOrCreateUser_refind(t)
    \/ \E t \in Tasks, from \in Ids, tg \in {"1", "2"} : setsaldo(t, from, tg, "10")
    \/ \E t \in Tasks : setsaldo_findAdmin(t)
    \/ \E t \in Tasks : comprar(t, 1, "gg", "1")
    \/ \E t \in Tasks : comprar_findByPk(t)
    \/ \E t \in Tasks, ok \in BOOLEAN : comprar_generate(t, ok)
    \/ \E t \in Tasks : comprar_sendMessage(t)
    \/ \E t \in Tasks : saldo(t, 1)
    \/ \E t \in Tasks : saldo_findByPk(t)
    \/ \E t \in Tasks : saldo_findAll(t)
    \/ \E t \in Tasks : depositar(t, "depositar", 1, "10")
    \/ \E t \in Tasks : depositar_findByPk(t)
    \/ \E t, s \in Tasks : callback_query(t, s)
    \/ \E t \in Tasks : handlePagSeguroPIX_findByPk(t)
    \/ \E t \in Tasks, ok \in BOOLEAN : createPagSeguroPIX(t, ok)
    \/ \E t \in Tasks, ok \in BOOLEAN : handlePagSeguroPIX_qrcode(t, ok)
    \/ \E t \in Tasks : depositarcartao(t, 1, "10")
    \/ \E t \in Tasks : depositarcartao_findByPk(t)
    \/ \E ok \in BOOLEAN : depositarcartao_message(1, ok)
    \/ \E t \in Tasks, st \in {"PAID", "IN_ANALYSIS", "REJECTED"} : createPagSeguroCard(t, st)
    \/ \E t \in Tasks : webhook(t, Paid)
    \/ \E t \in Tasks : processPaymentFromReference_findByPk(t)
    \/ \E t \in Tasks : processPaymentFromReference_increment(t)
    \/ \E t \in Tasks : processPaymentFromReference_create(t)
    \/ \E t \in Tasks : updateUserBalance_findByPk(t)
    \/ \E t \in Tasks : updateUserBalance_increment(t)
    \/ \E t \in Tasks : updateUserBalance_create(t)
    \/ \E t \in Tasks : updateUserBalance_reload(t)
    \/ \E t \in Tasks : StorageFails(t)

SpecNoAdmin == InitNoAdmin /\ [][NextNoAdmin]_vars

\* SpecRefund: user 1, with a confirmed deposit of 50, sends /comprar gg 3
\* or /comprar card 1 while the store is failing: up to RefundFaults awaited
\* calls reject, so the refund of a failed purchase can fail too.
RefundTasks == 2
RefundFaults == 2

InitRefund ==
    /\ userRows = [i \in Ids |-> IF i = 1 THEN 1 ELSE 0]
    /\ isAdmin = [i \in Ids |-> FALSE]
    /\ balance = [i \in Ids |-> IF i = 1 THEN Deposit ELSE 0]
    /\ txs = <<[userId |-> 1, amount |-> Deposit, type |-> "deposit",
                paymentId |-> "", description |-> "CHAR_0"]>>
    /\ task = [t \in 1..RefundTasks |-> NoTask]
    /\ faults = 0
    /\ secret = TRUE

NextRefund ==
    \/ \E t \in Tasks, a \in {<<"gg", "3">>, <<"card", "1">>} : comprar(t, 1, a[1], a[2])
    \/ \E t \in Tasks : comprar_findByPk(t)
    \/ \E t \in Tasks, ok \in BOOLEAN : comprar_generate(t, ok)
    \/ \E t \in Tasks : comprar_sendMessage(t)
    \/ \E t \in Tasks : updateUserBalance_findByPk(t)
    \/ \E t \in Tasks : updateUserBalance_increment(t)
    \/ \E t \in Tasks : updateUserBalance_create(t)
    \/ \E t \in Tasks : updateUserBalance_reload(t)
    \/ \E t \in Tasks : StorageFailsUpTo(t, RefundFaults)

SpecRefund == InitRefund /\ [][NextRefund]_vars

\* SpecReport: /report from the admin (user 1) and from user 2, who is
\* registered without the admin flag or not registered, while the admin,
\* whose balance is 10 from an earlier adjustment, adjusts it again.
ReportTasks == 2
ReportKinds == {"report", "report_daily"}

InitReport ==
    /\ \E registered \in BOOLEAN :
          userRows = [i \in Ids |-> IF i = 1 \/ registered THEN 1 ELSE 0]
    /\ isAdmin = [i \in Ids |-> i = 1]
    /\ balance = [i \in Ids |-> IF i = 1 THEN 10 ELSE 0]
    /\ txs = <<[userId |-> 1, amount |-> 10, type |-> "admin_adjustment",
                paymentId |-> "", description |-> ""]>>
    /\ task = [t \in 1..ReportTasks |-> NoTask]
    /\ faults = 0
    /\ secret = TRUE

NextReport ==
    \/ \E t \in Tasks, kind \in ReportKinds, from \in Ids : report(t, kind, from)
    \/ \E t \in Tasks : report_findAdmin(t)
    \/ \E t \in Tasks : report_findAll(t)
    \/ \E t \in Tasks : report_transactions(t)
    \/ \E t \in Tasks : report_sendMessage(t)
    \/ \E t \in Tasks : setsaldo(t, 1, "1", "10")
    \/ \E t \in Tasks : setsaldo_findAdmin(t)
    \/ \E t \in Tasks : setsaldo_findTarget(t)
    \/ \E t \in Tasks : updateUserBalance_findByPk(t)
    \/ \E t \in Tasks : updateUserBalance_increment(t)
    \/ \E t \in Tasks : updateUserBalance_create(t)
    \/ \E t \in Tasks : updateUserBalance_reload(t)
    \/ \E t \in Tasks : StorageFails(t)

SpecReport == InitReport /\ [][NextReport]_vars

\* SpecNoSecret: PAGSEGURO_WEBHOOK_SECRET is not set; paid V4 notifications
\* for user 1 arrive with every shape of signature header.
NoSecretRequests ==
    {[Paid EXCEPT !.hasSig = h.hasSig, !.sig = h.sig] : h \in SignatureHeaders}

InitNoSecret ==
    /\ userRows = [i \in Ids |-> IF i = 1 THEN 1 ELSE 0]
    /\ isAdmin = [i \in Ids |-> FALSE]
    /\ balance = [i \in Ids |-> 0]
    /\ txs = <<>>
    /\ task = [t \in 1..MaxTasks |-> NoTask]
    /\ faults = 0
    /\ secret = FALSE

NextNoSecret ==
    \/ \E t \in Tasks, req \in NoSecretRequests : webhook(t, req)
    \/ \E t \in Tasks : processPaymentFromReference_findByPk(t)
    \/ \E t \in Tasks : processPaymentFromReference_increment(t)
    \/ \E t \in Tasks : processPaymentFromReference_create(t)
    \/ \E t \in Tasks : StorageFails(t)

SpecNoSecret == InitNoSecret /\ [][NextNoSecret]_vars

\* SpecEnsure: /start and /registrar from user 1, who is registered as an
\* admin with a balance of 10 and its adjustment logged, and from user 2, who
\* is not registered.
InitEnsure ==
    /\ userRows = [i \in Ids |-> IF i = 1 THEN 1 ELSE 0]
    /\ isAdmin = [i \in Ids |-> i = 1]
    /\ balance = [i \in Ids |-> IF i = 1 THEN 10 ELSE 0]
    /\ txs = <<[userId |-> 1, amount |-> 10, type |-> "admin_adjustment",
                paymentId |-> "", description |-> ""]>>
    /\ task = [t \in 1..UsersTasks |-> NoTask]
    /\ faults = 0
    /\ secret = TRUE

SpecEnsure == InitEnsure /\ [][NextUsers]_vars

\* SpecCard: users 1 and 2, both registered at balance 0, send
\* /depositarcartao 10 and other messages; the gateway answers the charge and
\* notifies the webhook of a paid order.  (The webhook's steps after its
\* reception are not among the actions: it answers every such notification
\* at reception, which C34 checks.)
CardTasks == 2

InitCard ==
    /\ userRows = [i \in Ids |-> 1]
    /\ isAdmin = [i \in Ids |-> FALSE]
    /\ balance = [i \in Ids |-> 0]
    /\ txs = <<>>
    /\ task = [t \in 1..CardTasks |-> NoTask]
    /\ faults = 0
    /\ secret = TRUE

NextCard ==
    \/ \E t \in Tasks, from \in Ids : depositarcartao(t, from, "10")
    \/ \E t \in Tasks : depositarcartao_findByPk(t)
    \/ \E sender \in Ids, ok \in BOOLEAN : depositarcartao_message(sender, ok)
    \/ \E t \in Tasks, st \in {"PAID", "IN_ANALYSIS", "REJECTED"} : createPagSeguroCard(t, st)
    \/ \E t \in Tasks : updateUserBalance_findByPk(t)
    \/ \E t \in Tasks : updateUserBalance_increment(t)
    \/ \E t \in Tasks : updateUserBalance_create(t)
    \/ \E t \in Tasks : updateUserBalance_reload(t)
    \/ \E t, s \in Tasks : pagseguroNotifies(t, s)
    \/ \E t \in Tasks : StorageFails(t)

SpecCard == InitCard /\ [][NextCard]_vars

\* SpecNotPaid: correctly signed notifications for user 1 in each format,
\* paid and not paid, and a payload that is neither format.
NotPaidRequests ==
    {Paid,
     [Paid EXCEPT !.paid = FALSE],
     [Paid EXCEPT !.format = "v3", !.value = {5}, !.id = "CODE_1"],
     [Paid EXCEPT !.format = "v3", !.paid = FALSE, !.value = {5}, !.id = "CODE_2"],
     [Paid EXCEPT !.format = "other"]}

NextNotPaid ==
    \/ \E t \in Tasks, req \in NotPaidRequests : webhook(t, req)
    \/ \E t \in Tasks : processPagSeguroNotification(t)
    \/ \E t \in Tasks : processPaymentFromReference_findByPk(t)
    \/ \E t \in Tasks : processPaymentFromReference_increment(t)
    \/ \E t \in Tasks : processPaymentFromReference_create(t)
    \/ \E t \in Tasks : StorageFails(t)

SpecNotPaid == InitWebhook /\ [][NextNotPaid]_vars

\* SpecRespond: requests of every shape to POST /webhook/pagseguro, served by
\* either revision of the endpoint.
NextRespond ==
    \/ \E t \in Tasks, req \in WebhookRequests : webhook(t, req)
    \/ \E t \in Tasks, req \in WebhookRequests : webhook_first(t, req)
    \/ \E t \in Tasks : processPagSeguroNotification(t)
    \/ \E t \in Tasks : processPaymentFromReference_findByPk(t)
    \/ \E t \in Tasks : processPaymentFromReference_increment(t)
    \/ \E t \in Tasks : processPaymentFromReference_create(t)
    \/ \E t \in Tasks : StorageFails(t)

SpecRespond == InitWebhook /\ [][NextRespond]_vars

\* SpecFrame: two registered users with a confirmed deposit each, user 1 an
\* admin; either of them buys or pays by card, the admin adjusts either, and
\* paid notifications arrive for either.
FrameTasks == 2
FrameRequests == {PaidV4("1", "CHAR_1", 500), PaidV4("2", "CHAR_2", 500)}

InitFrame ==
    /\ userRows = [i \in Ids |-> 1]
    /\ isAdmin = [i \in Ids |-> i = 1]
    /\ balance = [i \in Ids |-> Deposit]
    /\ txs = <<[userId |-> 1, amount |-> Deposit, type |-> "deposit",
                paymentId |-> "", description |-> "CHAR_0"],
               [userId |-> 2, amount |-> Deposit, type |-> "deposit",
                paymentId |-> "", description |-> "CHAR_9"]>>
    /\ task = [t \in 1..FrameTasks |-> NoTask]
    /\ faults = 0
    /\ secret = TRUE

NextFrame ==
    \/ \E t \in Tasks, from \in Ids : comprar(t, from, "gg", "1")
    \/ \E t \in Tasks : comprar_findByPk(t)
    \/ \E t \in Tasks, ok \in BOOLEAN : comprar_generate(t, ok)
    \/ \E t \in Tasks : comprar_sendMessage(t)
    \/ \E t \in Tasks, from \in Ids : depositarcartao(t, from, "10")
    \/ \E t \in Tasks : depositarcartao_findByPk(t)
    \/ \E sender \in Ids, ok \in BOOLEAN : depositarcartao_message(sender, ok)
    \/ \E t \in Tasks, st \in {"PAID", "REJECTED"} : createPagSeguroCard(t, st)
    \/ \E t \in Tasks, target \in {"1", "2"} : setsaldo(t, 1, target, "10")
    \/ \E t \in Tasks : setsaldo_findAdmin(t)
    \/ \E t \in Tasks : setsaldo_findTarget(t)
    \/ \E t \in Tasks, req \in FrameRequests : webhook(t, req)
    \/ \E t \in Tasks : processPaymentFromReference_findByPk(t)
    \/ \E t \in Tasks : processPaymentFromReference_increment(t)
    \/ \E t \in Tasks : processPaymentFromReference_create(t)
    \/ \E t \in Tasks : updateUserBalance_findByPk(t)
    \/ \E t \in Tasks : updateUserBalance_increment(t)
    \/ \E t \in Tasks : updateUserBalance_create(t)
    \/ \E t \in Tasks : updateUserBalance_reload(t)
    \/ \E t \in Tasks : StorageFails(t)

SpecFrame == InitFrame /\ [][NextFrame]_vars

\* SpecOwner: user 2 has no row until they send /start; before and after
\* that the admin (user 1) adjusts them and paid notifications arrive for
\* them.
OwnerTasks == 3
OwnerRequests == {PaidV4("2", "CHAR_2", 500)}

NextOwner ==
    \/ \E t \in Tasks : setsaldo(t, 1, "2", "10")
    \/ \E t \in Tasks : setsaldo_findAdmin(t)
    \/ \E t \in Tasks : setsaldo_findTarget(t)
    \/ \E t \in Tasks, req \in OwnerRequests : webhook(t, req)
    \/ \E t \in Tasks : processPaymentFromReference_findByPk(t)
    \/ \E t \in Tasks : processPaymentFromReference_increment(t)
    \/ \E t \in Tasks : processPaymentFromReference_create(t)
    \/ \E t \in Tasks : start(t, 2)
    \/ \E t \in Tasks : findOrCreateUser_find(t)
    \/ \E t \in Tasks : findOrCreateUser_create(t)
    \/ \E t \in Tasks : findOrCreateUser_refind(t)
    \/ \E t \in Tasks : updateUserBalance_findByPk(t)
    \/ \E t \in Tasks : updateUserBalance_increment(t)
    \/ \E t \in Tasks : updateUserBalance_create(t)
    \/ \E t \in Tasks : updateUserBalance_reload(t)
    \/ \E t \in Tasks : StorageFails(t)

InitOwner ==
    /\ userRows = [i \in Ids |-> IF i = 1 THEN 1 ELSE 0]
    /\ isAdmin = [i \in Ids |-> i = 1]
    /\ balance = [i \in Ids |-> 0]
    /\ txs = <<>>
    /\ task = [t \in 1..OwnerTasks |-> NoTask]
    /\ faults = 0
    /\ secret = TRUE

SpecOwner == InitOwner /\ [][NextOwner]_vars

\* ------------------------------------------------------------------ claims

\* a balance-mutating call (updateUserBalance, or the mutation of
\* processPaymentFromReference) has started and not yet returned or thrown
MutatingPcs == UpdatePcs \cup {"w_find", "w_inc", "w_create"}
InProgress(t) == Running(t) /\ task[t].pc \in MutatingPcs
AllDone == \A t \in Tasks : ~Running(t)

\* the call of task t ran to its end
Completed(t) == task[t].pc = "done" /\ task[t].out \in {"adjusted", "200_processed"}
\* the call of task t threw
Threw(t) == task[t].pc = "done" /\ task[t].out \in {"adjust_error", "500", "unhandled", "critical"}

RECURSIVE SumCompleted(_, _)
SumCompleted(id, n) ==
    IF n = 0 THEN 0
    ELSE (IF Completed(n) /\ task[n].target = id THEN task[n].amount ELSE 0)
         + SumCompleted(id, n - 1)

NumCompleted(id) == Cardinality({t \in Tasks : Completed(t) /\ task[t].target = id})

\* C1: whenever no balance-mutating call is in progress, every user's stored
\* balance equals the sum of the amounts of that user's Transaction rows,
\* also after calls in which a storage write failed.
C1_BalanceEqualsLog ==
    (\A t \in Tasks : ~InProgress(t)) => \A id \in Ids : balance[id] = SumAmounts(txs, id)

\* C2: when the balance-mutating calls on a user have all completed (none
\* threw), however their storage steps interleaved, the stored balance is the
\* starting balance (0) plus the sum of their amounts and each appended
\* exactly one Transaction row.
C2_NoLostUpdate ==
    (AllDone /\ \A t \in Tasks : ~Threw(t)) =>
        \A id \in Ids : /\ balance[id] = SumCompleted(id, Cardinality(Tasks))
                        /\ Cardinality(RowsOf(id)) = NumCompleted(id)

\* C2's case: an admin credit of +10 and a webhook credit of +5 on user 1
\* overlapped (the webhook incremented before the admin call reloaded, and
\* appended its row after the admin call's row), and both completed.
C2_Witness ==
    /\ AllDone
    /\ Len(txs) = 2
    /\ txs[1].type = "admin_adjustment" /\ txs[1].amount = 10
    /\ txs[2].type = "deposit" /\ txs[2].amount = 5
    /\ \E t \in Tasks : task[t].kind = "setsaldo" /\ Completed(t) /\ task[t].ret = 15
    /\ balance[1] = 15

\* C3: a handler running beside a balance-mutating call (here /saldo, between
\* its start and its last read) finds the balance and the Transaction rows in
\* step: with no storage call failed, the stored balance of the user it reads
\* equals the sum of that user's rows.
C3_VisibleTogether ==
    \A t \in Tasks :
        (task[t].kind = "saldo" /\ Running(t) /\ faults = 0)
            => balance[task[t].from] = SumAmounts(txs, task[t].from)

\* C4: however often the same paid notification (same payment id) is
\* delivered, the store holds at most one deposit Transaction for that
\* payment id, and the user's balance was raised once.
DepositsOf(payId) == {i \in 1..Len(txs) : /\ txs[i].type = "deposit"
                                          /\ payId \in {txs[i].paymentId, txs[i].description}}
C4_IdempotentCredit ==
    \A t \in Tasks :
        task[t].kind = "webhook" =>
            /\ Cardinality(DepositsOf(task[t].req.id)) <= 1
            /\ (AllDone /\ faults = 0 /\ Completed(t)) =>
                  SumAmounts(txs, task[t].target) - SumAmounts(SelectSeq(txs, LAMBDA x : x.type # "deposit"), task[t].target)
                      = task[t].amount

\* the purchases of id in the log
PurchaseRows(id) == {i \in 1..Len(txs) : txs[i].type = "purchase" /\ txs[i].userId = id}
\* The /comprar messages of id that were accepted, each named by the task
\* of its first registration (t + 1 is its second): a handler of the message
\* delivered the items.
Succeeded(t) == task[t].pc = "done" /\ task[t].out = "success"
Accepted(id) == {t \in Tasks : /\ task[t].kind = "comprar1" /\ task[t].from = id
                               /\ (Succeeded(t) \/ Succeeded(t + 1))}
\* quantity x unitPrice as the handler that accepted the message computed it
CostOf(t) == IF Succeeded(t) THEN task[t].cost ELSE task[t + 1].cost
RECURSIVE SumCost(_)
SumCost(ts) == IF ts = {} THEN 0
               ELSE LET t == CHOOSE x \in ts : TRUE IN CostOf(t) + SumCost(ts \ {t})

C6_InsufficientRejected ==
    [][\A t \in Tasks :
          /\ (/\ task[t].kind \in {"comprar1", "comprar2"}
              /\ task[t].pc = "c_find" /\ task'[t].pc # "c_find"
              /\ Exists(task[t].from)
              /\ pricePerItem(task[t].kind, task[t].item) > 0
              /\ task[t].qty * pricePerItem(task[t].kind, task[t].item) > balance[task[t].from])
             => /\ task'[t].pc = "done"
                /\ task'[t].out \in {"insufficient", "unhandled"}
                /\ balance' = balance /\ txs' = txs
          /\ (task[t].kind # "none" /\ task[t].pc = "done") => task'[t] = task[t]]_vars

\* C6's case: a handler has refused a purchase that cost more than the balance
C6_Witness ==
    \E t \in Tasks : /\ task[t].out = "insufficient" /\ task[t].cost > task[t].seen
                     /\ task[t].cost = 3 * PriceGG1

\* C7: a purchase whose debit was applied and whose fulfilment then failed
\* (an item was not generated) ends with a refund Transaction of
\* +(quantity x unitPrice) in the log beside the purchase row.
C7_RefundOnFailure ==
    \A t \in Tasks :
        (/\ task[t].kind \in {"comprar1", "comprar2"} /\ task[t].pc = "done"
         /\ task[t].updated /\ task[t].bad > 0)
            => \E i \in 1..Len(txs) : /\ txs[i].type = "refund"
                                      /\ txs[i].userId = task[t].from
                                      /\ txs[i].amount = task[t].cost

\* the sender of the /setsaldo of task t has no row, or a row whose admin
\* flag is false
NotAdmin(t) == ~Exists(task[t].from) \/ ~isAdmin[task[t].from]

\* C8: a step of a /setsaldo handler whose sender is not registered or has
\* the admin flag false changes no balance and appends no Transaction row,
\* whatever target and amount the command carries: the handler's only step
\* is the one that ends it.
C8_AdminGate ==
    [][\A t \in Tasks :
          (task[t].kind = "setsaldo" /\ NotAdmin(t) /\ task'[t] # task[t])
             => /\ balance' = balance /\ txs' = txs
                /\ task'[t].pc = "done"]_vars

\* C8's case: user 2, registered without the admin flag, has sent
\* /setsaldo 1 10 and was refused, and the admin's own /setsaldo 1 10 went
\* through beside it.
C8_Witness ==
    /\ Exists(2)
    /\ \E t \in Tasks : /\ task[t].kind = "setsaldo" /\ task[t].from = 2
                        /\ task[t].argTarget = {1} /\ task[t].argAmount = {10}
                        /\ task[t].out = "denied"
    /\ \E t \in Tasks : task[t].from = 1 /\ task[t].out = "adjusted"
    /\ balance[1] = 10 /\ Len(txs) = 1

\* the signature header of req is absent, or is not the HMAC of the raw body
\* (with or without the sha256= prefix)
Mismatch(req) == ~req.hasSig \/ StripPrefix(req.sig) # Hmac(req.body)

\* C9: with a secret configured, a (well-formed JSON) request whose signature
\* is absent or does not equal the HMAC of its body is answered 403 at once:
\* it never reaches the processing that changes a balance or appends a row.
C9_SignatureRejected ==
    \A t \in Tasks :
        (task[t].kind = "webhook" /\ secret /\ task[t].req.json /\ Mismatch(task[t].req))
            => /\ task[t].pc = "done"
               /\ task[t].out \in {"403_invalid", "403_missing"}

\* a call of the ensure-user-exists operation of task t returned normally
Ensured(t) == /\ task[t].kind \in {"start", "registrar"} /\ task[t].pc = "done"
              /\ task[t].out \in {"welcome", "registered", "already_registered"}

\* C10: however /start and /registrar calls for one id interleave, the Users
\* table never holds two rows of that id, a call that returned leaves exactly
\* one, and (no storage call rejecting) no call ends in an error.
C10_OneUserRow ==
    /\ \A id \in Ids : userRows[id] <= 1
    /\ \A t \in Tasks : Ensured(t) => userRows[task[t].from] = 1
    /\ faults = 0 => \A t \in Tasks : task[t].out # "unhandled"

\* C10's case: two calls for the same id both found no row, one inserted it,
\* the other's INSERT was refused and it returned the first one's row.
C10_Witness ==
    \E s, t \in Tasks :
        /\ s # t /\ task[s].from = task[t].from
        /\ Ensured(s) /\ task[s].updated
        /\ Ensured(t) /\ task[t].conflict
        /\ userRows[task[t].from] = 1

\* the amount a notification carries, in R$: a V4 charge gives it in
\* centavos, a V3 transaction (grossAmount) in R$
NotifiedAmount(req) ==
    IF IsNaN(req.value) THEN 0
    ELSE IF req.format = "v4" THEN Num(req.value) \div CentsPerUnit ELSE Num(req.value)

\* the user a well-formed reference <userId>-<token> names; 0 when it names none
RefUser(req) ==
    IF req.hasRef /\ Len(req.ref) >= 2 /\ \E id \in Ids : req.ref[1] = IdToken(id)
    THEN CHOOSE id \in Ids : req.ref[1] = IdToken(id)
    ELSE 0

\* a paid notification, admitted by the signature step, for an existing user
\* and a positive amount
Creditable(req) ==
    /\ req.json /\ SignatureGate(req) = "pass" /\ req.format \in {"v3", "v4"}
    /\ req.paid /\ Exists(RefUser(req)) /\ NotifiedAmount(req) > 0
CreditableTasks(id) ==
    {t \in Tasks : task[t].kind = "webhook" /\ Creditable(task[t].req) /\ RefUser(task[t].req) = id}
RECURSIVE SumNotified(_)
SumNotified(ts) ==
    IF ts = {} THEN 0
    ELSE LET t == CHOOSE x \in ts : TRUE IN NotifiedAmount(task[t].req) + SumNotified(ts \ {t})
\* the deposit rows a notification accounts for: of its user and amount,
\* tagged with the provider's payment id
DepositRows(req) ==
    {i \in 1..Len(txs) : /\ txs[i].type = "deposit" /\ txs[i].userId = RefUser(req)
                         /\ txs[i].amount = NotifiedAmount(req)
                         /\ txs[i].paymentId = req.id}

\* C11: with every request answered and no storage failure, each accepted
\* paid notification for an existing user and a positive amount was answered
\* with success, the user's balance rose by exactly the notified amounts, and
\* the log holds one deposit row of that amount, tagged with the provider's
\* payment id, per notification.
C11_PaidNotificationCredited ==
    (AllDone /\ faults = 0) =>
        \A id \in Ids :
            /\ balance[id] = SumNotified(CreditableTasks(id))
            /\ \A t \in CreditableTasks(id) :
                  /\ task[t].out = "200_processed"
                  /\ Cardinality(DepositRows(task[t].req))
                        = Cardinality({u \in CreditableTasks(id) :
                                          /\ task[u].req.id = task[t].req.id
                                          /\ NotifiedAmount(task[u].req) = NotifiedAmount(task[t].req)})
            /\ Cardinality(RowsOf(id)) = Cardinality(CreditableTasks(id))

\* C12: the notification of a paid deposit intent of user U carries the
\* reference id the bot generated for it; the webhook's decoding (parseInt of
\* the first '-'-separated token) yields U, and the request, once answered
\* with no failure, has credited U.
C12_ReferenceRoundTrip ==
    \A t \in Tasks :
        (task[t].kind = "webhook" /\ task[t].from \in Ids) =>
            /\ ParseInt(task[t].req.ref[1]) = {task[t].from}
            /\ (task[t].pc = "done" /\ faults = 0) =>
                  /\ task[t].out = "200_processed"
                  /\ task[t].target = task[t].from

\* a reference token that is a decimal number
IsNumber(tok) == tok \in {"1", "2", "9"}
\* the reference of req is missing, has no '-', or its first token is not a
\* number
Malformed(req) == ~req.hasRef \/ Len(req.ref) < 2 \/ ~IsNumber(req.ref[1])

\* C13: a notification admitted by the signature step whose reference is
\* malformed is answered with an error at once: it never reaches the lookup
\* and the writes.
C13_MalformedReferenceRejected ==
    \A t \in Tasks :
        (/\ task[t].kind = "webhook" /\ task[t].req.json
         /\ SignatureGate(task[t].req) = "pass" /\ task[t].req.format = "v4"
         /\ Malformed(task[t].req))
            => /\ task[t].pc = "done"
               /\ task[t].out \in {"400_reference", "400_data"}

\* C14: the lookup of a notification whose reference decodes to an id with
\* no User row ends the request with an error (404, or 500 when the lookup
\* itself rejects); that step changes no balance, appends no row and creates
\* no User row, and the request does nothing after it.
C14_UnknownUserNotCredited ==
    [][\A t \in Tasks :
          /\ (/\ task[t].kind = "webhook" /\ task[t].pc = "w_find"
              /\ (task[t].target \notin Ids \/ userRows[task[t].target] = 0)
              /\ task'[t] # task[t])
             => /\ task'[t].pc = "done" /\ task'[t].out \in {"404", "500"}
                /\ balance' = balance /\ txs' = txs /\ userRows' = userRows
          /\ (task[t].kind = "webhook" /\ task[t].pc = "done") => task'[t] = task[t]]_vars

\* C14's case: a paid notification for user 2 was answered 404 while user 2
\* had no row, user 2 registered afterwards, and nothing was credited.
C14_Witness ==
    /\ \E t \in Tasks : /\ task[t].kind = "webhook" /\ task[t].out = "404"
                        /\ task[t].target = 2
    /\ userRows[2] = 1 /\ balance[2] = 0 /\ txs = <<>>

\* an argument text that is a number
Numeric(text) == text \in {"0", "1", "2", "3", "9", "10", "50", "51", "-5"}
\* the arguments of the command of task record r are invalid: a quantity
\* that is not a number or not positive, an unknown item type, an amount that
\* is not a number, not positive or below the minimum, a target id or delta
\* that is not a number
InvalidArgs(r) ==
    CASE r.kind \in {"comprar1", "comprar2"} ->
            \/ r.args[1] \notin {"gg", "card", "cartao"}
            \/ ~Numeric(r.args[2]) \/ Num(ParseInt(r.args[2])) <= 0
      [] r.kind \in {"depositar", "depositarcartao"} ->
            \/ ~Numeric(r.args[1]) \/ Num(ParseFloat(r.args[1])) <= 0
            \/ Num(ParseFloat(r.args[1])) < (IF r.kind = "depositar" THEN MinPix ELSE MinCard)
      [] r.kind = "setsaldo" -> ~Numeric(r.args[1]) \/ ~Numeric(r.args[2])
      [] OTHER -> FALSE

\* C17: a command with invalid arguments never gets to a balance update, to
\* the generation of items or to the card payment, and does not end in
\* success.
C17_InvalidArgumentsRejected ==
    \A t \in Tasks :
        InvalidArgs(task[t]) =>
            /\ task[t].pc \notin UpdatePcs \cup {"c_gen", "c_send", "k_card", "k_pay"}
            /\ task[t].out \notin {"success", "adjusted", "card_paid", "card_pending",
                                   "refunded", "offered"}

\* id has no User row
NoRow(id) == id \notin Ids \/ userRows[id] = 0
\* the step of task t in which the handler looks up a user who has no row:
\* the sender of /comprar or /depositar, the target of /setsaldo
MissingUserLookup(t) ==
    \/ /\ task[t].kind \in {"comprar1", "comprar2"} /\ task[t].pc = "c_find"
       /\ NoRow(task[t].from)
    \/ /\ task[t].kind \in {"depositar", "depositar0"} /\ task[t].pc = "d_find"
       /\ NoRow(task[t].from)
    \/ /\ task[t].kind = "setsaldo" /\ task[t].pc = "s_target"
       /\ NoRow(task[t].target)

\* C15: a /comprar or /depositar whose sender has no User row, and a
\* /setsaldo whose target has none, ends at the lookup with a rejection; that
\* step changes no balance, appends no Transaction row and creates no User
\* row, and the handler does nothing after it.
C15_MissingUserRejected ==
    [][\A t \in Tasks :
          /\ (MissingUserLookup(t) /\ task'[t] # task[t])
             => /\ task'[t].pc = "done"
                /\ task'[t].out \in {"not_registered", "not_found", "unhandled"}
                /\ balance' = balance /\ txs' = txs /\ userRows' = userRows
          /\ (task[t].kind # "none" /\ task[t].pc = "done") => task'[t] = task[t]]_vars

\* C15's case: both handlers of user 2's /comprar refused it for want of a
\* row, user 2 registered afterwards, and nothing was written.
C15_Witness ==
    /\ \E t \in Tasks : /\ task[t].kind = "comprar1" /\ task[t].from = 2
                        /\ task[t].out = "not_registered"
                        /\ task[t + 1].out = "not_registered"
    /\ userRows[2] = 1 /\ balance[2] = 0 /\ txs = <<>>

\* C16: a /comprar whose quantity is above the maximum of 50 items is
\* refused by every handler of the message when it arrives: none of them
\* gets to the balance update or generates an item.
C16_MaximumQuantity ==
    \A t \in Tasks :
        (/\ task[t].kind \in {"comprar1", "comprar2"}
         /\ Numeric(task[t].args[2]) /\ Num(ParseInt(task[t].args[2])) > MaxItems)
            => /\ task[t].pc = "done" /\ task[t].out = "max_qty"
               /\ task[t].gen = 0

\* the handlers of the PIX deposit-intent flow
IntentKinds == {"depositar", "depositar0", "callback"}

\* C18: no step of /depositar, of the button's callback or of
\* handlePagSeguroPIX changes a balance or appends a Transaction row, whether
\* the gateway call succeeds or fails, and none of them ever enters
\* updateUserBalance.
C18_IntentFlowMutationFree ==
    [][\A t \in Tasks :
          (task'[t].kind \in IntentKinds /\ task'[t] # task[t])
             => /\ balance' = balance /\ txs' = txs /\ userRows' = userRows
                /\ task'[t].pc \notin UpdatePcs]_vars

\* C18's case: one PIX order was created and shown, another gateway call
\* failed, and the store is as it was.
C18_Witness ==
    /\ \E t \in Tasks : task[t].kind = "callback" /\ task[t].out = "pix_sent"
    /\ \E t \in Tasks : task[t].kind = "depositar0" /\ task[t].out = "pix_error"
    /\ txs = <<>> /\ \A id \in Ids : balance[id] = 0

\* the /setsaldo commands naming target id, and the sum of their deltas
AdjustmentsOf(id) ==
    {t \in Tasks : task[t].kind = "setsaldo" /\ ParseInt(task[t].args[1]) = {id}}
RECURSIVE SumDeltas(_)
SumDeltas(ts) ==
    IF ts = {} THEN 0
    ELSE LET t == CHOOSE x \in ts : TRUE
         IN  Num(ParseFloat(task[t].args[2])) + SumDeltas(ts \ {t})
AdjustmentRows(id, delta) ==
    {i \in 1..Len(txs) : /\ txs[i].type = "admin_adjustment" /\ txs[i].userId = id
                         /\ txs[i].amount = delta}

\* C19: when the admin's /setsaldo commands (existing targets, numeric
\* deltas of any sign) have all ended with no storage failure, every one has
\* succeeded, each user's balance is the starting balance (0) plus the deltas
\* of the commands that named them, so a command that names another user
\* leaves the admin's balance alone, and the log holds one admin_adjustment
\* row of the delta, owned by the target, per command.
C19_AdminAdjustment ==
    (AllDone /\ faults = 0) =>
        \A id \in Ids :
            /\ balance[id] = SumDeltas(AdjustmentsOf(id))
            /\ Cardinality(RowsOf(id)) = Cardinality(AdjustmentsOf(id))
            /\ \A t \in AdjustmentsOf(id) :
                  /\ task[t].out = "adjusted"
                  /\ Cardinality(AdjustmentRows(id, Num(ParseFloat(task[t].args[2]))))
                        = Cardinality({u \in AdjustmentsOf(id) : task[u].args[2] = task[t].args[2]})

\* C19's case: the admin gave user 2 +10 and took 5 from themselves.
C19_Witness ==
    /\ AllDone /\ faults = 0
    /\ \E t \in Tasks : task[t].args = <<"2", "10">> /\ task[t].out = "adjusted"
    /\ \E t \in Tasks : task[t].args = <<"1", "-5">> /\ task[t].out = "adjusted"
    /\ balance = [i \in Ids |-> IF i = 1 THEN 0 - 5 ELSE 10]
    /\ Len(txs) = 2

\* C20: no step changes the admin flag of a user who has a row, and a row
\* the program creates has it false; so on a store with no admin the flags
\* stay false, no /setsaldo gets past its admin gate and no admin_adjustment
\* row is ever in the log.
C20_AdminFlagNeverChanges ==
    /\ [][\A id \in Ids :
            /\ userRows[id] > 0 => isAdmin'[id] = isAdmin[id]
            /\ (userRows[id] = 0 /\ userRows'[id] > 0) => isAdmin'[id] = FALSE]_vars
    /\ [](/\ \A id \in Ids : ~isAdmin[id]
          /\ \A t \in Tasks : task[t].kind = "setsaldo" =>
                /\ task[t].pc \in {"s_admin", "done"}
                /\ task[t].out \in {"", "denied", "unhandled"}
          /\ \A i \in 1..Len(txs) : txs[i].type # "admin_adjustment")

\* C20's case: user 2 registered through /start and then sent /setsaldo 2 10,
\* which was refused.
C20_Witness ==
    /\ userRows[2] = 1 /\ ~isAdmin[2]
    /\ \E t \in Tasks : task[t].kind = "start" /\ task[t].updated /\ task[t].out = "welcome"
    /\ \E t \in Tasks : /\ task[t].kind = "setsaldo" /\ task[t].from = 2
                        /\ task[t].args = <<"2", "10">> /\ task[t].out = "denied"

\* C21: the Transaction log is append-only: every step leaves the rows that
\* exist (owner, type, amount, paymentId) as they are and in place; the log
\* before the step is a prefix of the log after it.
C21_AppendOnly ==
    [][/\ Len(txs') >= Len(txs)
       /\ SubSeq(txs', 1, Len(txs)) = txs]_vars

\* C21's case: an admin adjustment and a webhook credit have both appended
\* their row.
C21_Witness ==
    /\ Len(txs) >= 2
    /\ \E i, j \in 1..Len(txs) :
          /\ i < j
          /\ {txs[i].type, txs[j].type} = {"admin_adjustment", "deposit"}

\* the notifications for user id whose increment has run and which are in
\* flight or were answered with success
CreditedNotifications(id) ==
    {t \in Tasks : /\ task[t].kind = "webhook" /\ task[t].target = id
                   /\ \/ task[t].pc = "w_create"
                      \/ task[t].pc = "done" /\ task[t].out = "200_processed"}
RECURSIVE SumCredited(_)
SumCredited(ts) ==
    IF ts = {} THEN 0
    ELSE LET t == CHOOSE x \in ts : TRUE IN task[t].amount + SumCredited(ts \ {t})

\* C22: a notification answered with anything other than success has left
\* no change in any balance: each balance is the sum of the amounts of the
\* notifications answered with success (or still between their increment and
\* their answer), so a re-delivery after a non-success answer cannot credit
\* the payment a second time.
C22_SafeToRetry ==
    \A id \in Ids : balance[id] = SumCredited(CreditedNotifications(id))

\* C23: the user updateUserBalance returns carries the balance stored when
\* its reload ran, after its own row was appended; a change another call made
\* since this call's first read is in it.
C23_ReturnsStoredBalance ==
    [][\A t \in Tasks :
          (task[t].pc = "ub_reload" /\ task'[t].pc # "ub_reload" /\ faults' = faults) =>
              /\ task'[t].ret = balance[task[t].target]
              /\ \E i \in 1..Len(txs) : /\ txs[i].userId = task[t].target
                                        /\ txs[i].amount = task[t].amount
                                        /\ txs[i].type = task[t].type]_vars

\* C23's case: an adjustment has returned a balance that is not its first
\* read plus its amount, because another adjustment of the same user ran in
\* between.
C23_Witness ==
    \E t, u \in Tasks :
        /\ t # u
        /\ task[t].kind = "setsaldo" /\ task[t].out = "adjusted"
        /\ task[u].kind = "setsaldo" /\ task[u].target = task[t].target
        /\ task[u].amount # 0
        /\ task[t].ret = task[t].read + task[t].amount + task[u].amount

\* a pass of the generation loop of handler t has run, or its items were sent
Generating(t) ==
    /\ task[t].kind \in {"comprar1", "comprar2"}
    /\ \/ task[t].gen + task[t].bad > 0
       \/ task[t].pc = "c_send"
       \/ task[t].out = "success"

\* C24: a /comprar handler generates (and delivers) items only after its own
\* debit has completed: by then its updateUserBalance has returned and the
\* log holds its purchase row of -(quantity x unitPrice); a handler whose
\* debit did not complete has generated nothing and delivers nothing.
C24_DebitBeforeGeneration ==
    \A t \in Tasks :
        /\ Generating(t) =>
              /\ task[t].updated
              /\ task[t].cost = task[t].qty * pricePerItem(task[t].kind, task[t].item)
              /\ \E i \in PurchaseRows(task[t].from) : txs[i].amount = 0 - task[t].cost
        /\ (task[t].kind \in {"comprar1", "comprar2"} /\ ~task[t].updated) =>
              /\ task[t].gen = 0 /\ task[t].bad = 0
              /\ task[t].out # "success"

\* C24's case: one handler of a /comprar gg 3 has debited and delivered its
\* three items, the other's debit failed and it has generated none.
C24_Witness ==
    \E t, u \in Tasks :
        /\ task[t].kind \in {"comprar1", "comprar2"} /\ task[t].out = "success"
        /\ task[t].qty = 3 /\ task[t].gen + task[t].bad = 3
        /\ task[u].kind \in {"comprar1", "comprar2"} /\ task[u].pc = "done"
        /\ task[u].cost > 0 /\ ~task[u].updated
        /\ task[u].out \in {"unhandled", "refunded", "critical"}

\* C25: a handler that reports a successful purchase of quantity N sends N
\* item entries, and the balance it sends is the one its updateUserBalance
\* re-read from the store after the debit was applied and logged.
C25_ItemsAndBalance ==
    /\ [](\A t \in Tasks :
             (task[t].kind \in {"comprar1", "comprar2"} /\ task[t].out = "success") =>
                 /\ task[t].qty > 0
                 /\ task[t].gen + task[t].bad = task[t].qty
                 /\ task[t].updated)
    /\ [][\A t \in Tasks : (task[t].kind \in {"comprar1", "comprar2"} /\ ~task[t].refund) =>
             \* the reload of the debit reads the stored balance, and the debit
             \* is in it
             /\ (task[t].pc = "ub_reload" /\ task'[t].pc # "ub_reload" /\ faults' = faults) =>
                   /\ task'[t].ret = balance[task[t].from]
                   /\ \E i \in PurchaseRows(task[t].from) : txs[i].amount = 0 - task[t].cost
             \* and that is the balance the handler sends
             /\ (task[t].updated /\ task'[t].kind = task[t].kind) => task'[t].ret = task[t].ret]_vars

\* C25's case: a purchase of 3 was delivered with a balance that is not the
\* handler's first read minus its cost, because the stored balance had moved.
C25_Witness ==
    \E t \in Tasks :
        /\ task[t].kind \in {"comprar1", "comprar2"} /\ task[t].out = "success"
        /\ task[t].qty = 3 /\ task[t].gen + task[t].bad = 3
        /\ task[t].ret # task[t].seen - task[t].cost

\* the refund of handler t is running or has ended
Refunding(t) == task[t].kind = "comprar1" /\ task[t].refund

\* C26: the refund of a failed purchase ends in "critical" when one of its
\* storage calls rejects, and in "refunded" only when it ran to its end: its
\* increment added the cost back to the stored balance and its refund row is
\* in the log.
C26_RefundOutcome ==
    /\ [][\A t \in Tasks : (Refunding(t) /\ task'[t].kind = task[t].kind) =>
             /\ (task[t].pc # "done" /\ task'[t].pc = "done") =>
                   IF faults' # faults THEN task'[t].out = "critical"
                   ELSE /\ task'[t].out = "refunded"
                        /\ task[t].pc = "ub_reload"
             /\ (task[t].pc = "ub_inc" /\ task'[t].pc # "ub_inc" /\ faults' = faults) =>
                   balance'[task[t].from] = balance[task[t].from] + task[t].cost
             /\ task[t].pc = "done" => task'[t] = task[t]]_vars
    /\ [](\A t \in Tasks :
             (Refunding(t) /\ (task[t].pc = "ub_reload" \/ task[t].out = "refunded")) =>
                 \E i \in 1..Len(txs) : /\ txs[i].type = "refund"
                                        /\ txs[i].userId = task[t].from
                                        /\ txs[i].amount = task[t].cost)

\* C26's case: the debit of a purchase failed and then a storage call of its
\* refund failed too; the handler ended in the critical-error outcome.
C26_Witness ==
    \E t \in Tasks : /\ Refunding(t) /\ task[t].pc = "done"
                     /\ task[t].out = "critical" /\ task[t].cost > 0

\* C27: a step of a /report handler changes no balance, no admin flag, no
\* User row and no Transaction row, whoever sent the command; and the handler
\* of a sender who is not an admin ends at its gate with a denial, before it
\* has read any user or transaction.
C27_ReportReadOnly ==
    [][\A t \in Tasks :
          (task[t].kind \in ReportKinds /\ task'[t] # task[t]) =>
              /\ balance' = balance /\ isAdmin' = isAdmin
              /\ userRows' = userRows /\ txs' = txs
              /\ (~Exists(task[t].from) \/ ~isAdmin[task[t].from]) =>
                    /\ task[t].pc = "p_admin" /\ task'[t].pc = "done"
                    /\ task'[t].out \in {"denied", "unhandled"}
                    /\ task'[t].ret = 0 /\ task'[t].seen = 0 /\ task'[t].gen = 0]_vars

\* C27's case: with an adjustment of 10 logged, the admin's /report has shown
\* the total of 10 and user 2's /report was denied.
C27_Witness ==
    /\ Len(txs) > 0
    /\ \E t, u \in Tasks :
          /\ task[t].kind \in ReportKinds /\ task[t].from = 1
          /\ task[t].out = "reported" /\ task[t].seen = 10
          /\ task[u].kind \in ReportKinds /\ task[u].from = 2 /\ task[u].out = "denied"

\* request req with the signature header h
WithHeader(req, h) == [req EXCEPT !.hasSig = h.hasSig, !.sig = h.sig]
\* what the handler does with a request up to its first await, the request
\* itself left out
Handling(req) == [Receive(req, 0) EXCEPT !.req = NoReq]
\* a paid notification of a positive amount for an existing user
PaidForUser(req) ==
    /\ req.json /\ req.format \in {"v3", "v4"} /\ req.paid
    /\ Exists(RefUser(req)) /\ NotifiedAmount(req) > 0

C29_FindOrCreateIdempotent ==
    [][\A t \in Tasks :
          (task[t].kind \in {"start", "registrar"} /\ task'[t] # task[t]) =>
              LET id == task[t].from
              IN  /\ txs' = txs
                  /\ \A o \in Ids \ {id} : /\ userRows'[o] = userRows[o]
                                           /\ balance'[o] = balance[o]
                                           /\ isAdmin'[o] = isAdmin[o]
                  /\ IF Exists(id)
                     THEN /\ userRows'[id] = userRows[id]
                          /\ balance'[id] = balance[id]
                          /\ isAdmin'[id] = isAdmin[id]
                     ELSE userRows'[id] # userRows[id] =>
                              /\ userRows'[id] = 1
                              /\ balance'[id] = 0
                              /\ ~isAdmin'[id]
                              /\ RowsOf(id) = {}]_vars

\* C29's case: /start has created user 2, and a /start of user 1 has greeted
\* the admin with the stored balance of 10.
C29_Witness ==
    /\ \E t \in Tasks : /\ task[t].kind = "start" /\ task[t].from = 2
                        /\ task[t].updated /\ task[t].out = "welcome"
    /\ \E t \in Tasks : /\ task[t].kind = "start" /\ task[t].from = 1
                        /\ task[t].out = "welcome" /\ task[t].seen = 10
    /\ userRows = [i \in Ids |-> 1] /\ balance[1] = 10 /\ isAdmin[1] /\ Len(txs) = 1

\* C30: with no negative admin adjustment, no balance is negative in any
\* reachable state, also with several /comprar handlers of one user in
\* flight: handlers that each found the balance sufficient do not all debit
\* when their costs together exceed it.
C30_NeverNegative ==
    \A id \in Ids : balance[id] >= 0

\* C31: purchases only lower a balance or give back what they took: with
\* no deposit or adjustment arriving, a user's balance never exceeds the 50
\* it had before the commands, also when a purchase's debit failed before
\* its increment and the handler took its error path.
C31_RefundOnlyAppliedDebit ==
    \A id \in Ids : balance[id] <= (IF id = 1 THEN Deposit ELSE 0)

\* C32: the card-data step a valid /depositarcartao of user U leaves pending
\* is ended only by a message of U: no handler's pending step is dropped
\* because a message of another user arrived.
C32_PendingCardStep ==
    \A t \in Tasks :
        task[t].kind = "depositarcartao" => ~(task[t].pc = "done" /\ task[t].out = "ignored")

\* the card deposits of id the gateway answered PAID and whose credit was
\* reported, or is between its increment (its row) and its end
CardCredited(id) ==
    {t \in Tasks : /\ task[t].kind = "depositarcartao" /\ task[t].from = id
                   /\ task[t].req # NoReq
                   /\ (task[t].out = "card_paid" \/ task[t].pc \in {"ub_create", "ub_reload"})}
CardLogged(id) ==
    {t \in CardCredited(id) : task[t].out = "card_paid" \/ task[t].pc = "ub_reload"}
RECURSIVE SumRequested(_)
SumRequested(ts) ==
    IF ts = {} THEN 0
    ELSE LET t == CHOOSE x \in ts : TRUE IN task[t].amount + SumRequested(ts \ {t})

\* C33: on the card path a balance holds exactly the requested amounts of
\* the deposits the gateway answered PAID, each with one deposit row carrying
\* the gateway's order id; a deposit that ended any other way (another
\* status, a gateway error, an exception) has changed no balance and appended
\* no row.
C33_CardCreditedIffPaid ==
    \A id \in Ids :
        /\ balance[id] = SumRequested(CardCredited(id))
        /\ Cardinality(RowsOf(id)) = Cardinality(CardLogged(id))
        /\ \A i \in RowsOf(id) : /\ txs[i].type = "deposit" /\ txs[i].paymentId = "ORDE_1"
                                 /\ txs[i].amount = 10

\* the notifications received for the order of card deposit t
NotificationsOf(t) == {u \in Tasks : task[u].kind = "webhook" /\ task[u].req = task[t].req}

\* C34: a card payment answered PAID is credited once: the webhook answers
\* the provider's notification of that order without crediting (it never
\* gets to its storage steps), so with no storage failure the balance holds
\* the requested amount once per paid card deposit, with one deposit row.
C34_CardCreditedOnce ==
    /\ \A u \in Tasks :
          task[u].kind = "webhook" => (task[u].pc = "done" /\ task[u].out # "200_processed")
    /\ faults = 0 =>
          \A id \in Ids :
              /\ balance[id] = 10 * Cardinality(CardCredited(id))
              /\ Cardinality({i \in RowsOf(id) : txs[i].type = "deposit"})
                    = Cardinality(CardLogged(id))

\* C34's case: user 1's card deposit of 10 was credited inline and the
\* webhook has answered the notification of the same order; the balance is 10.
C34_Witness ==
    \E t \in Tasks :
        /\ task[t].kind = "depositarcartao" /\ task[t].from = 1 /\ task[t].out = "card_paid"
        /\ NotificationsOf(t) # {}
        /\ \A u \in NotificationsOf(t) : task[u].pc = "done"
        /\ balance[1] = 10 /\ Len(txs) = 1

\* a request the JSON and signature steps admit whose payment is not paid,
\* or whose payload is neither a V3 nor a V4 notification
NotPaid(req) ==
    /\ req.json /\ SignatureGate(req) = "pass"
    /\ \/ req.format \in {"v3", "v4"} /\ ~req.paid
       \/ req.format \notin {"v3", "v4"}

\* C35: the handler of such a request never gets to a storage step and no
\* step of it changes a balance, a Transaction row or a User row; it answers
\* with success (for V3 once the PagSeguro API has answered; a rejected fetch
\* is the internal-error path).
C35_NotPaidNoEffect ==
    /\ [](\A t \in Tasks :
             (task[t].kind = "webhook" /\ NotPaid(task[t].req)) =>
                 /\ task[t].pc \in {"done", "w_fetch"}
                 /\ task[t].pc = "w_fetch" => task[t].req.format = "v3"
                 /\ task[t].pc = "done" =>
                       task[t].out \in {"200_not_paid", "200_not_processed", "500"}
                 /\ task[t].out = "500" => (task[t].req.format = "v3" /\ faults > 0))
    /\ [][\A t \in Tasks :
             (task'[t].kind = "webhook" /\ NotPaid(task'[t].req) /\ task'[t] # task[t]) =>
                 /\ balance' = balance /\ txs' = txs
                 /\ userRows' = userRows /\ isAdmin' = isAdmin]_vars

\* C35's case: an unpaid V4 charge and a payload of neither format were both
\* acknowledged with success; no balance and no row changed.
C35_Witness ==
    /\ \E t, u \in Tasks :
          /\ task[t].kind = "webhook" /\ task[t].req.format = "v4" /\ ~task[t].req.paid
          /\ task[t].out = "200_not_paid"
          /\ task[u].kind = "webhook" /\ task[u].req.format = "other"
          /\ task[u].out = "200_not_processed"
    /\ txs = <<>> /\ \A id \in Ids : balance[id] = 0

\* C36: every request to POST /webhook/pagseguro gets its one response: a
\* handler that has run to its end has answered the request, on every path
\* (credited, not paid, unrecognised format, rejected signature, unknown
\* user, malformed reference, internal error).
C36_OneResponse ==
    \A t \in Tasks :
        (task[t].kind \in {"webhook", "webhook_first"} /\ task[t].pc = "done") =>
            task[t].out # ""

\* the same of the second revision's handler alone
Responded(t) == task[t].kind = "webhook" /\ task[t].pc = "done" => task[t].out # ""

\* the user an operation is about: the sender of a /comprar or a
\* /depositarcartao, the target an admin names, the id a webhook decodes
\* from the reference (0 when there is none)
Subject(t) ==
    CASE task[t].kind \in {"comprar1", "comprar2", "depositarcartao"} -> task[t].from
      [] task[t].kind = "setsaldo" ->
            IF IsNaN(task[t].argTarget) THEN 0 ELSE Num(task[t].argTarget)
      [] task[t].kind = "webhook" ->
            IF task[t].req.hasRef /\ task[t].req.ref # <<>>
               /\ ~IsNaN(ParseInt(task[t].req.ref[1]))
            THEN Num(ParseInt(task[t].req.ref[1])) ELSE 0
      [] OTHER -> 0

OwnRows(log, u) == SelectSeq(log, LAMBDA row : row.userId = u)

\* C37: every step of an operation changes the balance and the Transaction
\* rows of at most one user, and that user is the operation's own: the
\* sender of a purchase or card deposit, the user decoded from a webhook's
\* reference, the target an admin adjustment names; every other user's
\* balance and rows are as they were.
C37_OneUserPerOperation ==
    [][ /\ Cardinality({u \in Ids : balance'[u] # balance[u]
                                    \/ OwnRows(txs', u) # OwnRows(txs, u)}) <= 1
        /\ \A u \in Ids :
              (balance'[u] # balance[u] \/ OwnRows(txs', u) # OwnRows(txs, u)) =>
                  \E t \in Tasks : /\ task[t].pc \in MutatingPcs
                                   /\ task'[t] # task[t]
                                   /\ Subject(t) = u
                                   /\ task[t].target = u ]_vars

\* user 1, an admin, has adjusted user 2: user 2 has the new balance and row
C37_Witness ==
    \E t \in Tasks : /\ task[t].kind = "setsaldo" /\ task[t].from = 1
                     /\ task[t].out = "adjusted" /\ task[t].target = 2
                     /\ balance[2] # Deposit
                     /\ Len(OwnRows(txs, 2)) > 1

\* C38: in every reachable state every Transaction row is owned by exactly
\* one existing User (its userId is the key of one User row), and no step
\* removes the User row of a user who owns transactions.
C38_RowsOwned ==
    /\ [](\A i \in 1..Len(txs) : txs[i].userId \in Ids /\ userRows[txs[i].userId] = 1)
    /\ [][\A u \in Ids : RowsOf(u) # {} => userRows'[u] >= userRows[u]]_vars

\* an operation for user 2 was refused while they had no row (webhook 404,
\* admin adjustment failing), and after they registered one was applied
C38_Witness ==
    /\ \E t \in Tasks : task[t].target = 2 /\ task[t].out \in {"404", "adjust_error"}
    /\ userRows[2] = 1
    /\ RowsOf(2) # {}

====
